---- MODULE Spec2Model ----
(***************************************************************************)
(* Model of the shopping-assistant demo: the product catalog and the       *)
(* catalog tools (shopping-tools), the tools registered on                 *)
(* shoppingAssistantAgent, the product-recommendation and stock-check      *)
(* workflows, the scorers, the chat endpoint POST /api/chat with the       *)
(* generation it starts, and the chat widget of the shop.                  *)
(*                                                                         *)
(* Strings are sequences of one-character strings, so that toLowerCase,    *)
(* includes and join are computed character by character.                  *)
(***************************************************************************)
EXTENDS Integers, Sequences, FiniteSets, TLC

VARIABLES sampleProducts, op, input, output, wf, widget, stream

vars == <<sampleProducts, op, input, output, wf, widget, stream>>

(***************************************************************************)
(* JavaScript values used by the code                                       *)
(***************************************************************************)

\* An optional value (T | undefined): the empty set is undefined.
Undefined == {}

Some(v) == {v}

ValueOf(o) == CHOOSE v \in o : TRUE

UpperCaseLetters ==
  <<"A", "B", "C", "D", "E", "F", "G", "H", "I", "J", "K", "L", "M",
    "N", "O", "P", "Q", "R", "S", "T", "U", "V", "W", "X", "Y", "Z">>

LowerCaseLetters ==
  <<"a", "b", "c", "d", "e", "f", "g", "h", "i", "j", "k", "l", "m",
    "n", "o", "p", "q", "r", "s", "t", "u", "v", "w", "x", "y", "z">>

\* String.prototype.toLowerCase on one character: only letters with a case
\* change (kana, kanji, digits and punctuation have none).
ToLowerChar(c) ==
  IF \E i \in 1..Len(UpperCaseLetters) : UpperCaseLetters[i] = c
  THEN LowerCaseLetters[CHOOSE i \in 1..Len(UpperCaseLetters) : UpperCaseLetters[i] = c]
  ELSE c

ToLowerCase(s) == [i \in 1..Len(s) |-> ToLowerChar(s[i])]

\* String.prototype.includes: sub occurs in s as a contiguous substring.
Includes(s, sub) ==
  \E i \in 0..(Len(s) - Len(sub)) :
    \A j \in 1..Len(sub) : s[i + j] = sub[j]

\* products.find((p) => p.id === productId): the first product with the id,
\* or undefined.
FindById(products, productId) ==
  IF \E i \in 1..Len(products) : products[i].id = productId
  THEN Some(products[CHOOSE i \in 1..Len(products) :
                       /\ products[i].id = productId
                       /\ \A j \in 1..(i - 1) : products[j].id # productId])
  ELSE Undefined

\* Array.prototype.slice(0, n).
SliceFirst(seq, n) == SubSeq(seq, 1, IF Len(seq) < n THEN Len(seq) ELSE n)

(***************************************************************************)
(* The product catalog                                                      *)
(***************************************************************************)

\* sampleProducts of shopping-tools, as the module is loaded.
SampleProductsLiteral ==
  <<
    \* ワイヤレスイヤホン Pro / 高音質ノイズキャンセリング搭載、最大30時間再生可能なプレミアムイヤホン / オーディオ
    [ id |-> <<"1">>,
      name |-> <<"u30ef", "u30a4", "u30e4", "u30ec", "u30b9", "u30a4", "u30e4", "u30db", "u30f3", " ", "P", "r", "o">>,
      description |->
        <<"u9ad8", "u97f3", "u8cea", "u30ce", "u30a4", "u30ba", "u30ad", "u30e3", "u30f3", "u30bb", "u30ea", "u30f3", "u30b0", "u642d", "u8f09", "u3001", "u6700", "u5927", "3", "0", "u6642", "u9593", "u518d", "u751f", "u53ef", "u80fd", "u306a", "u30d7", "u30ec", "u30df", "u30a2", "u30e0", "u30a4", "u30e4", "u30db", "u30f3">>,
      price |-> 15800,
      category |-> <<"u30aa", "u30fc", "u30c7", "u30a3", "u30aa">>,
      stock |-> 25 ],
    \* スマートウォッチ X1 / 心拍数モニター、GPS機能搭載のフィットネストラッカー / ウェアラブル
    [ id |-> <<"2">>,
      name |-> <<"u30b9", "u30de", "u30fc", "u30c8", "u30a6", "u30a9", "u30c3", "u30c1", " ", "X", "1">>,
      description |->
        <<"u5fc3", "u62cd", "u6570", "u30e2", "u30cb", "u30bf", "u30fc", "u3001", "G", "P", "S", "u6a5f", "u80fd", "u642d", "u8f09", "u306e", "u30d5", "u30a3", "u30c3", "u30c8", "u30cd", "u30b9", "u30c8", "u30e9", "u30c3", "u30ab", "u30fc">>,
      price |-> 24900,
      category |-> <<"u30a6", "u30a7", "u30a2", "u30e9", "u30d6", "u30eb">>,
      stock |-> 18 ],
    \* ノートパソコンスタンド / 人間工学に基づいた調整可能なアルミニウム製スタンド / アクセサリー
    [ id |-> <<"3">>,
      name |-> <<"u30ce", "u30fc", "u30c8", "u30d1", "u30bd", "u30b3", "u30f3", "u30b9", "u30bf", "u30f3", "u30c9">>,
      description |->
        <<"u4eba", "u9593", "u5de5", "u5b66", "u306b", "u57fa", "u3065", "u3044", "u305f", "u8abf", "u6574", "u53ef", "u80fd", "u306a", "u30a2", "u30eb", "u30df", "u30cb", "u30a6", "u30e0", "u88fd", "u30b9", "u30bf", "u30f3", "u30c9">>,
      price |-> 4980,
      category |-> <<"u30a2", "u30af", "u30bb", "u30b5", "u30ea", "u30fc">>,
      stock |-> 42 ],
    \* 4Kウェブカメラ / オートフォーカス、広角レンズ搭載のプロフェッショナルウェブカメラ / PC周辺機器
    [ id |-> <<"4">>,
      name |-> <<"4", "K", "u30a6", "u30a7", "u30d6", "u30ab", "u30e1", "u30e9">>,
      description |->
        <<"u30aa", "u30fc", "u30c8", "u30d5", "u30a9", "u30fc", "u30ab", "u30b9", "u3001", "u5e83", "u89d2", "u30ec", "u30f3", "u30ba", "u642d", "u8f09", "u306e", "u30d7", "u30ed", "u30d5", "u30a7", "u30c3", "u30b7", "u30e7", "u30ca", "u30eb", "u30a6", "u30a7", "u30d6", "u30ab", "u30e1", "u30e9">>,
      price |-> 8900,
      category |-> <<"P", "C", "u5468", "u8fba", "u6a5f", "u5668">>,
      stock |-> 15 ],
    \* メカニカルキーボード RGB / タクタイルスイッチ、カスタマイズ可能なRGBバックライト / PC周辺機器
    [ id |-> <<"5">>,
      name |-> <<"u30e1", "u30ab", "u30cb", "u30ab", "u30eb", "u30ad", "u30fc", "u30dc", "u30fc", "u30c9", " ", "R", "G", "B">>,
      description |->
        <<"u30bf", "u30af", "u30bf", "u30a4", "u30eb", "u30b9", "u30a4", "u30c3", "u30c1", "u3001", "u30ab", "u30b9", "u30bf", "u30de", "u30a4", "u30ba", "u53ef", "u80fd", "u306a", "R", "G", "B", "u30d0", "u30c3", "u30af", "u30e9", "u30a4", "u30c8">>,
      price |-> 12800,
      category |-> <<"P", "C", "u5468", "u8fba", "u6a5f", "u5668">>,
      stock |-> 30 ],
    \* ポータブル充電器 20000mAh / 急速充電対応、2ポート搭載の大容量モバイルバッテリー / アクセサリー
    [ id |-> <<"6">>,
      name |-> <<"u30dd", "u30fc", "u30bf", "u30d6", "u30eb", "u5145", "u96fb", "u5668", " ", "2", "0", "0", "0", "0", "m", "A", "h">>,
      description |->
        <<"u6025", "u901f", "u5145", "u96fb", "u5bfe", "u5fdc", "u3001", "2", "u30dd", "u30fc", "u30c8", "u642d", "u8f09", "u306e", "u5927", "u5bb9", "u91cf", "u30e2", "u30d0", "u30a4", "u30eb", "u30d0", "u30c3", "u30c6", "u30ea", "u30fc">>,
      price |-> 3980,
      category |-> <<"u30a2", "u30af", "u30bb", "u30b5", "u30ea", "u30fc">>,
      stock |-> 50 ],
    \* ゲーミングマウス Pro / 16000DPI、プログラマブルボタン搭載のゲーミングマウス / PC周辺機器
    [ id |-> <<"7">>,
      name |-> <<"u30b2", "u30fc", "u30df", "u30f3", "u30b0", "u30de", "u30a6", "u30b9", " ", "P", "r", "o">>,
      description |->
        <<"1", "6", "0", "0", "0", "D", "P", "I", "u3001", "u30d7", "u30ed", "u30b0", "u30e9", "u30de", "u30d6", "u30eb", "u30dc", "u30bf", "u30f3", "u642d", "u8f09", "u306e", "u30b2", "u30fc", "u30df", "u30f3", "u30b0", "u30de", "u30a6", "u30b9">>,
      price |-> 6800,
      category |-> <<"P", "C", "u5468", "u8fba", "u6a5f", "u5668">>,
      stock |-> 22 ],
    \* Bluetoothスピーカー / 360度サウンド、防水IPX7対応のポータブルスピーカー / オーディオ
    [ id |-> <<"8">>,
      name |-> <<"B", "l", "u", "e", "t", "o", "o", "t", "h", "u30b9", "u30d4", "u30fc", "u30ab", "u30fc">>,
      description |->
        <<"3", "6", "0", "u5ea6", "u30b5", "u30a6", "u30f3", "u30c9", "u3001", "u9632", "u6c34", "I", "P", "X", "7", "u5bfe", "u5fdc", "u306e", "u30dd", "u30fc", "u30bf", "u30d6", "u30eb", "u30b9", "u30d4", "u30fc", "u30ab", "u30fc">>,
      price |-> 5900,
      category |-> <<"u30aa", "u30fc", "u30c7", "u30a3", "u30aa">>,
      stock |-> 35 ]
  >>

\* allProducts, the literal inside the agent's search-products tool.
allProductsSearch ==
  <<
    \* ワイヤレスイヤホン Pro / 高音質ノイズキャンセリング搭載、最大30時間再生可能なプレミアムイヤホン / オーディオ
    [ id |-> <<"1">>,
      name |-> <<"u30ef", "u30a4", "u30e4", "u30ec", "u30b9", "u30a4", "u30e4", "u30db", "u30f3", " ", "P", "r", "o">>,
      description |->
        <<"u9ad8", "u97f3", "u8cea", "u30ce", "u30a4", "u30ba", "u30ad", "u30e3", "u30f3", "u30bb", "u30ea", "u30f3", "u30b0", "u642d", "u8f09", "u3001", "u6700", "u5927", "3", "0", "u6642", "u9593", "u518d", "u751f", "u53ef", "u80fd", "u306a", "u30d7", "u30ec", "u30df", "u30a2", "u30e0", "u30a4", "u30e4", "u30db", "u30f3">>,
      price |-> 15800,
      category |-> <<"u30aa", "u30fc", "u30c7", "u30a3", "u30aa">>,
      stock |-> 25 ],
    \* スマートウォッチ X1 / 心拍数モニター、GPS機能搭載のフィットネストラッカー / ウェアラブル
    [ id |-> <<"2">>,
      name |-> <<"u30b9", "u30de", "u30fc", "u30c8", "u30a6", "u30a9", "u30c3", "u30c1", " ", "X", "1">>,
      description |->
        <<"u5fc3", "u62cd", "u6570", "u30e2", "u30cb", "u30bf", "u30fc", "u3001", "G", "P", "S", "u6a5f", "u80fd", "u642d", "u8f09", "u306e", "u30d5", "u30a3", "u30c3", "u30c8", "u30cd", "u30b9", "u30c8", "u30e9", "u30c3", "u30ab", "u30fc">>,
      price |-> 24900,
      category |-> <<"u30a6", "u30a7", "u30a2", "u30e9", "u30d6", "u30eb">>,
      stock |-> 18 ],
    \* ノートパソコンスタンド / 人間工学に基づいた調整可能なアルミニウム製スタンド / アクセサリー
    [ id |-> <<"3">>,
      name |-> <<"u30ce", "u30fc", "u30c8", "u30d1", "u30bd", "u30b3", "u30f3", "u30b9", "u30bf", "u30f3", "u30c9">>,
      description |->
        <<"u4eba", "u9593", "u5de5", "u5b66", "u306b", "u57fa", "u3065", "u3044", "u305f", "u8abf", "u6574", "u53ef", "u80fd", "u306a", "u30a2", "u30eb", "u30df", "u30cb", "u30a6", "u30e0", "u88fd", "u30b9", "u30bf", "u30f3", "u30c9">>,
      price |-> 4980,
      category |-> <<"u30a2", "u30af", "u30bb", "u30b5", "u30ea", "u30fc">>,
      stock |-> 42 ],
    \* 4Kウェブカメラ / オートフォーカス、広角レンズ搭載のプロフェッショナルウェブカメラ / PC周辺機器
    [ id |-> <<"4">>,
      name |-> <<"4", "K", "u30a6", "u30a7", "u30d6", "u30ab", "u30e1", "u30e9">>,
      description |->
        <<"u30aa", "u30fc", "u30c8", "u30d5", "u30a9", "u30fc", "u30ab", "u30b9", "u3001", "u5e83", "u89d2", "u30ec", "u30f3", "u30ba", "u642d", "u8f09", "u306e", "u30d7", "u30ed", "u30d5", "u30a7", "u30c3", "u30b7", "u30e7", "u30ca", "u30eb", "u30a6", "u30a7", "u30d6", "u30ab", "u30e1", "u30e9">>,
      price |-> 8900,
      category |-> <<"P", "C", "u5468", "u8fba", "u6a5f", "u5668">>,
      stock |-> 15 ],
    \* メカニカルキーボード RGB / タクタイルスイッチ、カスタマイズ可能なRGBバックライト / PC周辺機器
    [ id |-> <<"5">>,
      name |-> <<"u30e1", "u30ab", "u30cb", "u30ab", "u30eb", "u30ad", "u30fc", "u30dc", "u30fc", "u30c9", " ", "R", "G", "B">>,
      description |->
        <<"u30bf", "u30af", "u30bf", "u30a4", "u30eb", "u30b9", "u30a4", "u30c3", "u30c1", "u3001", "u30ab", "u30b9", "u30bf", "u30de", "u30a4", "u30ba", "u53ef", "u80fd", "u306a", "R", "G", "B", "u30d0", "u30c3", "u30af", "u30e9", "u30a4", "u30c8">>,
      price |-> 12800,
      category |-> <<"P", "C", "u5468", "u8fba", "u6a5f", "u5668">>,
      stock |-> 30 ],
    \* ポータブル充電器 20000mAh / 急速充電対応、2ポート搭載の大容量モバイルバッテリー / アクセサリー
    [ id |-> <<"6">>,
      name |-> <<"u30dd", "u30fc", "u30bf", "u30d6", "u30eb", "u5145", "u96fb", "u5668", " ", "2", "0", "0", "0", "0", "m", "A", "h">>,
      description |->
        <<"u6025", "u901f", "u5145", "u96fb", "u5bfe", "u5fdc", "u3001", "2", "u30dd", "u30fc", "u30c8", "u642d", "u8f09", "u306e", "u5927", "u5bb9", "u91cf", "u30e2", "u30d0", "u30a4", "u30eb", "u30d0", "u30c3", "u30c6", "u30ea", "u30fc">>,
      price |-> 3980,
      category |-> <<"u30a2", "u30af", "u30bb", "u30b5", "u30ea", "u30fc">>,
      stock |-> 50 ],
    \* ゲーミングマウス Pro / 16000DPI、プログラマブルボタン搭載のゲーミングマウス / PC周辺機器
    [ id |-> <<"7">>,
      name |-> <<"u30b2", "u30fc", "u30df", "u30f3", "u30b0", "u30de", "u30a6", "u30b9", " ", "P", "r", "o">>,
      description |->
        <<"1", "6", "0", "0", "0", "D", "P", "I", "u3001", "u30d7", "u30ed", "u30b0", "u30e9", "u30de", "u30d6", "u30eb", "u30dc", "u30bf", "u30f3", "u642d", "u8f09", "u306e", "u30b2", "u30fc", "u30df", "u30f3", "u30b0", "u30de", "u30a6", "u30b9">>,
      price |-> 6800,
      category |-> <<"P", "C", "u5468", "u8fba", "u6a5f", "u5668">>,
      stock |-> 22 ],
    \* Bluetoothスピーカー / 360度サウンド、防水IPX7対応のポータブルスピーカー / オーディオ
    [ id |-> <<"8">>,
      name |-> <<"B", "l", "u", "e", "t", "o", "o", "t", "h", "u30b9", "u30d4", "u30fc", "u30ab", "u30fc">>,
      description |->
        <<"3", "6", "0", "u5ea6", "u30b5", "u30a6", "u30f3", "u30c9", "u3001", "u9632", "u6c34", "I", "P", "X", "7", "u5bfe", "u5fdc", "u306e", "u30dd", "u30fc", "u30bf", "u30d6", "u30eb", "u30b9", "u30d4", "u30fc", "u30ab", "u30fc">>,
      price |-> 5900,
      category |-> <<"u30aa", "u30fc", "u30c7", "u30a3", "u30aa">>,
      stock |-> 35 ]
  >>

\* allProducts, the literal inside the agent's get-product-detail tool.
allProductsDetail ==
  <<
    \* ワイヤレスイヤホン Pro / 高音質ノイズキャンセリング搭載、最大30時間再生可能なプレミアムイヤホン / オーディオ
    [ id |-> <<"1">>,
      name |-> <<"u30ef", "u30a4", "u30e4", "u30ec", "u30b9", "u30a4", "u30e4", "u30db", "u30f3", " ", "P", "r", "o">>,
      description |->
        <<"u9ad8", "u97f3", "u8cea", "u30ce", "u30a4", "u30ba", "u30ad", "u30e3", "u30f3", "u30bb", "u30ea", "u30f3", "u30b0", "u642d", "u8f09", "u3001", "u6700", "u5927", "3", "0", "u6642", "u9593", "u518d", "u751f", "u53ef", "u80fd", "u306a", "u30d7", "u30ec", "u30df", "u30a2", "u30e0", "u30a4", "u30e4", "u30db", "u30f3">>,
      price |-> 15800,
      category |-> <<"u30aa", "u30fc", "u30c7", "u30a3", "u30aa">>,
      stock |-> 25 ],
    \* スマートウォッチ X1 / 心拍数モニター、GPS機能搭載のフィットネストラッカー / ウェアラブル
    [ id |-> <<"2">>,
      name |-> <<"u30b9", "u30de", "u30fc", "u30c8", "u30a6", "u30a9", "u30c3", "u30c1", " ", "X", "1">>,
      description |->
        <<"u5fc3", "u62cd", "u6570", "u30e2", "u30cb", "u30bf", "u30fc", "u3001", "G", "P", "S", "u6a5f", "u80fd", "u642d", "u8f09", "u306e", "u30d5", "u30a3", "u30c3", "u30c8", "u30cd", "u30b9", "u30c8", "u30e9", "u30c3", "u30ab", "u30fc">>,
      price |-> 24900,
      category |-> <<"u30a6", "u30a7", "u30a2", "u30e9", "u30d6", "u30eb">>,
      stock |-> 18 ],
    \* ノートパソコンスタンド / 人間工学に基づいた調整可能なアルミニウム製スタンド / アクセサリー
    [ id |-> <<"3">>,
      name |-> <<"u30ce", "u30fc", "u30c8", "u30d1", "u30bd", "u30b3", "u30f3", "u30b9", "u30bf", "u30f3", "u30c9">>,
      description |->
        <<"u4eba", "u9593", "u5de5", "u5b66", "u306b", "u57fa", "u3065", "u3044", "u305f", "u8abf", "u6574", "u53ef", "u80fd", "u306a", "u30a2", "u30eb", "u30df", "u30cb", "u30a6", "u30e0", "u88fd", "u30b9", "u30bf", "u30f3", "u30c9">>,
      price |-> 4980,
      category |-> <<"u30a2", "u30af", "u30bb", "u30b5", "u30ea", "u30fc">>,
      stock |-> 42 ],
    \* 4Kウェブカメラ / オートフォーカス、広角レンズ搭載のプロフェッショナルウェブカメラ / PC周辺機器
    [ id |-> <<"4">>,
      name |-> <<"4", "K", "u30a6", "u30a7", "u30d6", "u30ab", "u30e1", "u30e9">>,
      description |->
        <<"u30aa", "u30fc", "u30c8", "u30d5", "u30a9", "u30fc", "u30ab", "u30b9", "u3001", "u5e83", "u89d2", "u30ec", "u30f3", "u30ba", "u642d", "u8f09", "u306e", "u30d7", "u30ed", "u30d5", "u30a7", "u30c3", "u30b7", "u30e7", "u30ca", "u30eb", "u30a6", "u30a7", "u30d6", "u30ab", "u30e1", "u30e9">>,
      price |-> 8900,
      category |-> <<"P", "C", "u5468", "u8fba", "u6a5f", "u5668">>,
      stock |-> 15 ],
    \* メカニカルキーボード RGB / タクタイルスイッチ、カスタマイズ可能なRGBバックライト / PC周辺機器
    [ id |-> <<"5">>,
      name |-> <<"u30e1", "u30ab", "u30cb", "u30ab", "u30eb", "u30ad", "u30fc", "u30dc", "u30fc", "u30c9", " ", "R", "G", "B">>,
      description |->
        <<"u30bf", "u30af", "u30bf", "u30a4", "u30eb", "u30b9", "u30a4", "u30c3", "u30c1", "u3001", "u30ab", "u30b9", "u30bf", "u30de", "u30a4", "u30ba", "u53ef", "u80fd", "u306a", "R", "G", "B", "u30d0", "u30c3", "u30af", "u30e9", "u30a4", "u30c8">>,
      price |-> 12800,
      category |-> <<"P", "C", "u5468", "u8fba", "u6a5f", "u5668">>,
      stock |-> 30 ],
    \* ポータブル充電器 20000mAh / 急速充電対応、2ポート搭載の大容量モバイルバッテリー / アクセサリー
    [ id |-> <<"6">>,
      name |-> <<"u30dd", "u30fc", "u30bf", "u30d6", "u30eb", "u5145", "u96fb", "u5668", " ", "2", "0", "0", "0", "0", "m", "A", "h">>,
      description |->
        <<"u6025", "u901f", "u5145", "u96fb", "u5bfe", "u5fdc", "u3001", "2", "u30dd", "u30fc", "u30c8", "u642d", "u8f09", "u306e", "u5927", "u5bb9", "u91cf", "u30e2", "u30d0", "u30a4", "u30eb", "u30d0", "u30c3", "u30c6", "u30ea", "u30fc">>,
      price |-> 3980,
      category |-> <<"u30a2", "u30af", "u30bb", "u30b5", "u30ea", "u30fc">>,
      stock |-> 50 ],
    \* ゲーミングマウス Pro / 16000DPI、プログラマブルボタン搭載のゲーミングマウス / PC周辺機器
    [ id |-> <<"7">>,
      name |-> <<"u30b2", "u30fc", "u30df", "u30f3", "u30b0", "u30de", "u30a6", "u30b9", " ", "P", "r", "o">>,
      description |->
        <<"1", "6", "0", "0", "0", "D", "P", "I", "u3001", "u30d7", "u30ed", "u30b0", "u30e9", "u30de", "u30d6", "u30eb", "u30dc", "u30bf", "u30f3", "u642d", "u8f09", "u306e", "u30b2", "u30fc", "u30df", "u30f3", "u30b0", "u30de", "u30a6", "u30b9">>,
      price |-> 6800,
      category |-> <<"P", "C", "u5468", "u8fba", "u6a5f", "u5668">>,
      stock |-> 22 ],
    \* Bluetoothスピーカー / 360度サウンド、防水IPX7対応のポータブルスピーカー / オーディオ
    [ id |-> <<"8">>,
      name |-> <<"B", "l", "u", "e", "t", "o", "o", "t", "h", "u30b9", "u30d4", "u30fc", "u30ab", "u30fc">>,
      description |->
        <<"3", "6", "0", "u5ea6", "u30b5", "u30a6", "u30f3", "u30c9", "u3001", "u9632", "u6c34", "I", "P", "X", "7", "u5bfe", "u5fdc", "u306e", "u30dd", "u30fc", "u30bf", "u30d6", "u30eb", "u30b9", "u30d4", "u30fc", "u30ab", "u30fc">>,
      price |-> 5900,
      category |-> <<"u30aa", "u30fc", "u30c7", "u30a3", "u30aa">>,
      stock |-> 35 ]
  >>

(***************************************************************************)
(* Inputs of the catalog operations                                         *)
(***************************************************************************)

\* Largest quantity asked of check-stock (one above the largest stock).
MaxQuantity == 51

\* "", "pro", "PRO", "オーディオ", "搭載", "zzz"
KeywordStrings ==
  { <<>>, <<"p", "r", "o">>, <<"P", "R", "O">>, <<"u30aa", "u30fc", "u30c7", "u30a3", "u30aa">>, <<"u642d", "u8f09">>, <<"z", "z", "z">> }

\* "", "PC周辺機器", "pc", "オーディオ", "pro"
CategoryStrings ==
  { <<>>, <<"P", "C", "u5468", "u8fba", "u6a5f", "u5668">>, <<"p", "c">>, <<"u30aa", "u30fc", "u30c7", "u30a3", "u30aa">>, <<"p", "r", "o">> }

PriceValues == { 0, 5900, 10000, 30000 }

\* "1" .. "8" are in the catalog; "9", "01" and "" are not.
ProductIds ==
  { <<"1">>, <<"2">>, <<"3">>, <<"4">>, <<"5">>, <<"6">>, <<"7">>, <<"8">>, <<"9">>, <<"0", "1">>, <<>> }

QuantityValues == (-1)..MaxQuantity

Optional(S) == { Undefined } \cup { Some(v) : v \in S }

(***************************************************************************)
(* shopping-tools: searchProductsTool                                       *)
(***************************************************************************)

\* if (context.keyword), if (context.category): defined and not "".
TruthyString(o) == o # Undefined /\ ValueOf(o) # <<>>

\* The keyword tested against name and description only.
KeywordMatchesNameDescription(p, keyword) ==
  \/ Includes(ToLowerCase(p.name), keyword)
  \/ Includes(ToLowerCase(p.description), keyword)

KeywordMatches(p, keyword) ==
  \/ Includes(ToLowerCase(p.name), keyword)
  \/ Includes(ToLowerCase(p.description), keyword)
  \/ Includes(ToLowerCase(p.category), keyword)

\* The category tested like the keyword, against name and description too.
CategoryMatchesLikeKeyword(p, category) ==
  KeywordMatches(p, ToLowerCase(category))

CategoryMatches(p, category) ==
  Includes(ToLowerCase(p.category), ToLowerCase(category))

AtLeastMinPrice(p, minPrice) == p.price >= minPrice

AtMostMaxPrice(p, maxPrice) == p.price <= maxPrice

SearchProductsExecute(context) ==
  LET all == sampleProducts
      byKeyword ==
        IF TruthyString(context.keyword)
        THEN LET keyword == ToLowerCase(ValueOf(context.keyword))
             IN  SelectSeq(all, LAMBDA p : KeywordMatches(p, keyword))
        ELSE all
      byCategory ==
        IF TruthyString(context.category)
        THEN SelectSeq(byKeyword, LAMBDA p : CategoryMatches(p, ValueOf(context.category)))
        ELSE byKeyword
      byMin ==
        IF context.minPrice # Undefined
        THEN SelectSeq(byCategory, LAMBDA p : AtLeastMinPrice(p, ValueOf(context.minPrice)))
        ELSE byCategory
      filtered ==
        IF context.maxPrice # Undefined
        THEN SelectSeq(byMin, LAMBDA p : AtMostMaxPrice(p, ValueOf(context.maxPrice)))
        ELSE byMin
  IN  [products |-> filtered, totalCount |-> Len(filtered)]

(***************************************************************************)
(* shopping-tools: getProductDetailTool, getCategoriesList, checkStockTool  *)
(***************************************************************************)

\* found: product !== null, which holds of undefined too.
GetProductDetailNotNull(context) ==
  LET product == FindById(sampleProducts, context.productId)
  IN  [product |-> product, found |-> TRUE]

\* product || null: null is the empty option.
GetProductDetailExecute(context) ==
  LET product == FindById(sampleProducts, context.productId)
  IN  [product |-> product, found |-> product # Undefined]

\* The loop with categoryMap.set(product.category, 1): a count is never
\* incremented.
RECURSIVE CategoryMapNoIncrement(_, _)
CategoryMapNoIncrement(products, n) ==
  IF n = 0 THEN <<>>
  ELSE LET before == CategoryMapNoIncrement(products, n - 1)
           category == products[n].category
       IN  IF \E i \in 1..Len(before) : before[i].name = category
           THEN before
           ELSE Append(before, [name |-> category, productCount |-> 1])

\* categoryMap after the loop over the first n products: a Map keeps its keys
\* in insertion order, here a sequence of [name, productCount].
RECURSIVE CategoryMap(_, _)
CategoryMap(products, n) ==
  IF n = 0 THEN <<>>
  ELSE LET before == CategoryMap(products, n - 1)
           category == products[n].category
       IN  IF \E i \in 1..Len(before) : before[i].name = category
           THEN [i \in 1..Len(before) |->
                   IF before[i].name = category
                   THEN [before[i] EXCEPT !.productCount = @ + 1]
                   ELSE before[i]]
           ELSE Append(before, [name |-> category, productCount |-> 1])

GetCategoriesExecute ==
  [categories |-> CategoryMap(sampleProducts, Len(sampleProducts))]

\* context.quantity || 1: undefined and 0 both give 1.
QuantityOrOne(quantity) ==
  IF quantity = Undefined \/ ValueOf(quantity) = 0 THEN 1 ELSE ValueOf(quantity)

\* A strict comparison: the last item cannot be had.
HasStockStrict(product, requestedQuantity) == product.stock > requestedQuantity

HasStock(product, requestedQuantity) == product.stock >= requestedQuantity

\* "不明"
UnknownName == <<"u4e0d", "u660e">>

CheckStockExecute(context) ==
  LET product == FindById(sampleProducts, context.productId)
      requestedQuantity == QuantityOrOne(context.quantity)
  IN  IF product = Undefined
      THEN [productId |-> context.productId,
            productName |-> UnknownName,
            currentStock |-> 0,
            requestedQuantity |-> requestedQuantity,
            isAvailable |-> FALSE,
            message |-> [kind |-> "not-found", stock |-> 0, short |-> 0]]
      ELSE LET pr == ValueOf(product)
               isAvailable == HasStock(pr, requestedQuantity)
           IN  [productId |-> pr.id,
                productName |-> pr.name,
                currentStock |-> pr.stock,
                requestedQuantity |-> requestedQuantity,
                isAvailable |-> isAvailable,
                message |->
                  IF isAvailable
                  THEN [kind |-> "in-stock", stock |-> pr.stock, short |-> 0]
                  ELSE [kind |-> "short", stock |-> pr.stock,
                        short |-> requestedQuantity - pr.stock]]

(***************************************************************************)
(* shoppingAssistantAgent: its own search-products and get-product-detail   *)
(***************************************************************************)

AgentKeywordMatches(p, keyword) ==
  \/ Includes(ToLowerCase(p.name), keyword)
  \/ Includes(ToLowerCase(p.description), keyword)

AgentCategoryMatches(p, category) == p.category = category

AgentSearchProductsExecute(context) ==
  LET byKeyword ==
        IF TruthyString(context.keyword)
        THEN LET keyword == ToLowerCase(ValueOf(context.keyword))
             IN  SelectSeq(allProductsSearch, LAMBDA p : AgentKeywordMatches(p, keyword))
        ELSE allProductsSearch
      byCategory ==
        IF TruthyString(context.category)
        THEN SelectSeq(byKeyword, LAMBDA p : AgentCategoryMatches(p, ValueOf(context.category)))
        ELSE byKeyword
      byMin ==
        IF context.minPrice # Undefined
        THEN SelectSeq(byCategory, LAMBDA p : p.price >= ValueOf(context.minPrice))
        ELSE byCategory
      filtered ==
        IF context.maxPrice # Undefined
        THEN SelectSeq(byMin, LAMBDA p : p.price <= ValueOf(context.maxPrice))
        ELSE byMin
  IN  [products |-> filtered]

AgentGetProductDetailExecute(context) ==
  [product |-> FindById(allProductsDetail, context.productId)]

(***************************************************************************)
(* The model's response text and JSON.parse                                 *)
(*                                                                         *)
(* A response text is a sequence of lexical tokens: punctuation, string    *)
(* literals, numbers, null, and words of prose that are no JSON.           *)
(***************************************************************************)

Punct(c) == [t |-> "punct", s |-> <<c>>, n |-> 0]

Str(s) == [t |-> "string", s |-> s, n |-> 0]

Num(n) == [t |-> "number", s |-> <<>>, n |-> n]

Null == [t |-> "null", s |-> <<>>, n |-> 0]

Word(s) == [t |-> "word", s |-> s, n |-> 0]

IsPunct(tok, c) == tok.t = "punct" /\ tok.s = <<c>>

\* textContent.match(/\{[\s\S]*\}/): the span from the first "{" to the last
\* "}" (the star is greedy), or no match when no "}" follows the first "{".
JsonMatch(text) ==
  LET opens == { i \in 1..Len(text) : IsPunct(text[i], "{") }
      closes == { i \in 1..Len(text) : IsPunct(text[i], "}") }
  IN  IF opens = {} \/ closes = {} THEN Undefined
      ELSE LET first == CHOOSE i \in opens : \A j \in opens : i <= j
               last == CHOOSE i \in closes : \A j \in closes : j <= i
           IN  IF first < last THEN Some(SubSeq(text, first, last)) ELSE Undefined

\* Parsed JSON values.
JsNull == [k |-> "null"]

JsNumber(n) == [k |-> "number", n |-> n]

JsString(s) == [k |-> "string", s |-> s]

JsArray(items) == [k |-> "array", items |-> items]

JsObject(members) == [k |-> "object", members |-> members]

ParseFailure == [ok |-> FALSE, value |-> JsNull, next |-> 0]

ParseSuccess(value, next) == [ok |-> TRUE, value |-> value, next |-> next]

\* Recursive descent over the JSON grammar, from token i.
RECURSIVE ParseValue(_, _), ParseMembers(_, _, _), ParseItems(_, _, _)
ParseValue(toks, i) ==
  IF i > Len(toks) THEN ParseFailure
  ELSE LET tok == toks[i]
       IN  CASE tok.t = "null" -> ParseSuccess(JsNull, i + 1)
             [] tok.t = "number" -> ParseSuccess(JsNumber(tok.n), i + 1)
             [] tok.t = "string" -> ParseSuccess(JsString(tok.s), i + 1)
             [] IsPunct(tok, "{") ->
                  IF i + 1 <= Len(toks) /\ IsPunct(toks[i + 1], "}")
                  THEN ParseSuccess(JsObject(<<>>), i + 2)
                  ELSE ParseMembers(toks, i + 1, <<>>)
             [] IsPunct(tok, "[") ->
                  IF i + 1 <= Len(toks) /\ IsPunct(toks[i + 1], "]")
                  THEN ParseSuccess(JsArray(<<>>), i + 2)
                  ELSE ParseItems(toks, i + 1, <<>>)
             [] OTHER -> ParseFailure

ParseMembers(toks, i, acc) ==
  IF i + 1 > Len(toks) \/ toks[i].t # "string" \/ ~IsPunct(toks[i + 1], ":")
  THEN ParseFailure
  ELSE LET r == ParseValue(toks, i + 2)
       IN  IF ~r.ok \/ r.next > Len(toks) THEN ParseFailure
           ELSE LET members == Append(acc, [key |-> toks[i].s, value |-> r.value])
                IN  CASE IsPunct(toks[r.next], ",") -> ParseMembers(toks, r.next + 1, members)
                      [] IsPunct(toks[r.next], "}") -> ParseSuccess(JsObject(members), r.next + 1)
                      [] OTHER -> ParseFailure

ParseItems(toks, i, acc) ==
  LET r == ParseValue(toks, i)
  IN  IF ~r.ok \/ r.next > Len(toks) THEN ParseFailure
      ELSE LET items == Append(acc, r.value)
           IN  CASE IsPunct(toks[r.next], ",") -> ParseItems(toks, r.next + 1, items)
                 [] IsPunct(toks[r.next], "]") -> ParseSuccess(JsArray(items), r.next + 1)
                 [] OTHER -> ParseFailure

\* JSON.parse: the value, or undefined for a thrown SyntaxError.
JsonParse(toks) ==
  LET r == ParseValue(toks, 1)
  IN  IF r.ok /\ r.next = Len(toks) + 1 THEN Some(r.value) ELSE Undefined

\* Property read v.key: undefined unless v is an object holding the key (the
\* last member wins when a key is repeated).
Prop(v, key) ==
  IF v.k = "object" /\ \E i \in 1..Len(v.members) : v.members[i].key = key
  THEN Some(v.members[CHOOSE i \in 1..Len(v.members) :
                        /\ v.members[i].key = key
                        /\ \A j \in (i + 1)..Len(v.members) : v.members[j].key # key].value)
  ELSE Undefined

IsNullish(o) == o = Undefined \/ ValueOf(o).k = "null"

\* parsed.priceRange?.min ?? 0: a bound that is null or absent becomes 0.
PriceBoundNullAsZero(parsed, bound) ==
  LET priceRange == Prop(parsed, <<"p", "r", "i", "c", "e", "R", "a", "n", "g", "e">>)
  IN  IF IsNullish(priceRange) THEN Some(0)
      ELSE LET b == Prop(ValueOf(priceRange), bound)
           IN  IF IsNullish(b) THEN Some(0)
               ELSE CASE ValueOf(b).k = "number" -> Some(ValueOf(b).n)

\* parsed.priceRange?.min ?? undefined, for a bound that is a number, null or
\* absent (the values userPreferencesSchema admits).
PriceBound(parsed, bound) ==
  LET priceRange == Prop(parsed, <<"p", "r", "i", "c", "e", "R", "a", "n", "g", "e">>)
  IN  IF IsNullish(priceRange) THEN Undefined
      ELSE LET b == Prop(ValueOf(priceRange), bound)
           IN  IF IsNullish(b) THEN Undefined
               ELSE CASE ValueOf(b).k = "number" -> Some(ValueOf(b).n)

\* parsed.key || fallback, for a list of strings, null or absent.
StringListOr(parsed, key, fallback) ==
  LET v == Prop(parsed, key)
  IN  IF IsNullish(v) THEN fallback
      ELSE CASE ValueOf(v).k = "array" ->
             [i \in 1..Len(ValueOf(v).items) |-> ValueOf(v).items[i].s]

(***************************************************************************)
(* shopping-workflow: analyze-user-request                                  *)
(***************************************************************************)

QUALITY == <<"q", "u", "a", "l", "i", "t", "y">>
PRICE == <<"p", "r", "i", "c", "e">>
STOCK == <<"s", "t", "o", "c", "k">>
POPULARITY == <<"p", "o", "p", "u", "l", "a", "r", "i", "t", "y">>

\* The defaults without the user message as a keyword.
DefaultPreferencesNoKeyword(userMessage) ==
  [priceRange |-> [min |-> Undefined, max |-> Undefined],
   preferredCategories |-> <<>>,
   keywords |-> <<>>,
   priorityFactors |-> <<QUALITY>>]

DefaultPreferences(userMessage) ==
  [priceRange |-> [min |-> Undefined, max |-> Undefined],
   preferredCategories |-> <<>>,
   keywords |-> <<userMessage>>,
   priorityFactors |-> <<QUALITY>>]

ParsedPreferences(parsed) ==
  [priceRange |-> [min |-> PriceBound(parsed, <<"m", "i", "n">>),
                   max |-> PriceBound(parsed, <<"m", "a", "x">>)],
   preferredCategories |-> StringListOr(parsed, <<"p", "r", "e", "f", "e", "r", "r", "e", "d", "C", "a", "t", "e", "g", "o", "r", "i", "e", "s">>, <<>>),
   keywords |-> StringListOr(parsed, <<"k", "e", "y", "w", "o", "r", "d", "s">>, <<>>),
   priorityFactors |-> StringListOr(parsed, <<"p", "r", "i", "o", "r", "i", "t", "y", "F", "a", "c", "t", "o", "r", "s">>, <<QUALITY>>)]

\* The part of execute after the model answered: the try block and its catch.
AnalyzeResponse(userMessage, textContent) ==
  LET jsonMatch == JsonMatch(textContent)
  IN  IF jsonMatch = Undefined THEN DefaultPreferences(userMessage)
      ELSE LET parsed == JsonParse(ValueOf(jsonMatch))
           IN  IF parsed = Undefined THEN DefaultPreferences(userMessage)
               ELSE ParsedPreferences(ValueOf(parsed))

(***************************************************************************)
(* shopping-workflow: search-and-filter                                     *)
(***************************************************************************)

\* slice(0, 6): one product more than announced.
TopCountPlusOne == 5 + 1

\* The number of products search-and-filter returns at most.
TopCount == 5

\* Array.prototype.sort((a, b) => key(a) - key(b)), a stable sort, with
\* keys[i] the key of seq[i]: an element moves behind those with a lower key
\* and behind those with the same key that stood before it.
SortBy(seq, keys) ==
  LET Rank(i) ==
        1 + Cardinality({ j \in 1..Len(seq) :
                            \/ keys[j] < keys[i]
                            \/ keys[j] = keys[i] /\ j < i })
  IN  [r \in 1..Len(seq) |-> seq[CHOOSE i \in 1..Len(seq) : Rank(i) = r]]

PreferredCategoryMatches(p, preferredCategories) ==
  \E i \in 1..Len(preferredCategories) :
    Includes(ToLowerCase(p.category), ToLowerCase(preferredCategories[i]))

\* The comparison turned around.
InPriceRangeMinReversed(p, min) == p.price <= min

InPriceRangeMin(p, min) == p.price >= min

InPriceRangeMax(p, max) == p.price <= max

AnyKeywordMatches(p, keywords) ==
  \E i \in 1..Len(keywords) :
    \/ Includes(ToLowerCase(p.name), ToLowerCase(keywords[i]))
    \/ Includes(ToLowerCase(p.description), ToLowerCase(keywords[i]))

\* let products = sampleProducts: the catalog itself, not a copy of it.
ProductsAssignedCatalog == TRUE

\* let products = [...sampleProducts]: a fresh array, no alias of the catalog.
ProductsAliasCatalog == FALSE

\* The last priority factor in place of the first.
PriorityFactorLast(priorityFactors) ==
  IF Len(priorityFactors) = 0 \/ priorityFactors[Len(priorityFactors)] = <<>> THEN QUALITY
  ELSE priorityFactors[Len(priorityFactors)]

\* inputData.priorityFactors[0] || "quality"
PriorityFactor(priorityFactors) ==
  IF Len(priorityFactors) = 0 \/ priorityFactors[1] = <<>> THEN QUALITY
  ELSE priorityFactors[1]

\* The sort with (a, b) => a.price - b.price in the default branch too.
SortByPriorityDefaultAscending(products, priorityFactor) ==
  CASE priorityFactor = PRICE ->
         SortBy(products, [i \in 1..Len(products) |-> products[i].price])
    [] priorityFactor = STOCK ->
         SortBy(products, [i \in 1..Len(products) |-> 0 - products[i].stock])
    [] OTHER ->
         SortBy(products, [i \in 1..Len(products) |-> products[i].price])

\* (a, b) => a.price - b.price; (a, b) => b.stock - a.stock;
\* default: (a, b) => b.price - a.price
SortByPriority(products, priorityFactor) ==
  CASE priorityFactor = PRICE ->
         SortBy(products, [i \in 1..Len(products) |-> products[i].price])
    [] priorityFactor = STOCK ->
         SortBy(products, [i \in 1..Len(products) |-> 0 - products[i].stock])
    [] OTHER ->
         SortBy(products, [i \in 1..Len(products) |-> 0 - products[i].price])

\* The filters with products = keywordFiltered unconditionally: a keyword
\* list that matches nothing leaves no product.
FilteredProductsNoFallback(inputData) ==
  LET all == sampleProducts
      hasCategories == Len(inputData.preferredCategories) > 0
      byCategory ==
        IF hasCategories
        THEN SelectSeq(all, LAMBDA p : PreferredCategoryMatches(p, inputData.preferredCategories))
        ELSE all
      hasMin == inputData.priceRange.min # Undefined
      byMin ==
        IF hasMin
        THEN SelectSeq(byCategory, LAMBDA p : InPriceRangeMin(p, ValueOf(inputData.priceRange.min)))
        ELSE byCategory
      hasMax == inputData.priceRange.max # Undefined
      byMax ==
        IF hasMax
        THEN SelectSeq(byMin, LAMBDA p : InPriceRangeMax(p, ValueOf(inputData.priceRange.max)))
        ELSE byMin
      hasKeywords == Len(inputData.keywords) > 0
      keywordFiltered ==
        SelectSeq(byMax, LAMBDA p : AnyKeywordMatches(p, inputData.keywords))
  IN  [products |-> IF hasKeywords THEN keywordFiltered ELSE byMax,
       initialArray |-> ~hasCategories /\ ~hasMin /\ ~hasMax /\ ~hasKeywords]

\* The products array just before the sort, and whether it is still the
\* array it was initialised with (every filter makes a new array).
FilteredProducts(inputData) ==
  LET all == sampleProducts
      hasCategories == Len(inputData.preferredCategories) > 0
      byCategory ==
        IF hasCategories
        THEN SelectSeq(all, LAMBDA p : PreferredCategoryMatches(p, inputData.preferredCategories))
        ELSE all
      hasMin == inputData.priceRange.min # Undefined
      byMin ==
        IF hasMin
        THEN SelectSeq(byCategory, LAMBDA p : InPriceRangeMin(p, ValueOf(inputData.priceRange.min)))
        ELSE byCategory
      hasMax == inputData.priceRange.max # Undefined
      byMax ==
        IF hasMax
        THEN SelectSeq(byMin, LAMBDA p : InPriceRangeMax(p, ValueOf(inputData.priceRange.max)))
        ELSE byMin
      keywordFiltered ==
        IF Len(inputData.keywords) > 0
        THEN SelectSeq(byMax, LAMBDA p : AnyKeywordMatches(p, inputData.keywords))
        ELSE <<>>
      useKeywords == Len(keywordFiltered) > 0
  IN  [products |-> IF useKeywords THEN keywordFiltered ELSE byMax,
       initialArray |-> ~hasCategories /\ ~hasMin /\ ~hasMax /\ ~useKeywords]

SearchAndFilterExecute(inputData) ==
  LET f == FilteredProducts(inputData)
      products == SortByPriority(f.products, PriorityFactor(inputData.priorityFactors))
  IN  [filteredProducts |-> SliceFirst(products, TopCount),
       totalMatched |-> Len(products)]

\* sampleProducts.sort(...): the catalog itself sorted in place.
CatalogSortedInPlace(inputData) ==
  SortByPriority(sampleProducts, PriorityFactor(inputData.priorityFactors))

\* sampleProducts after search-and-filter: the in-place sort reaches it only
\* through an alias.
CatalogAfterSearchAndFilter(inputData) ==
  LET f == FilteredProducts(inputData)
  IN  IF ProductsAliasCatalog /\ f.initialArray
      THEN SortByPriority(f.products, PriorityFactor(inputData.priorityFactors))
      ELSE sampleProducts

(***************************************************************************)
(* shopping-workflow: generate-recommendation                               *)
(***************************************************************************)

NoMatchReasoning == "apology"

DefaultReasoning == "selected"

\* The return without a model call, when nothing was found.
EmptyRecommendation ==
  [recommendations |-> <<>>, reasoning |-> NoMatchReasoning, totalFound |-> 0]

\* The part of execute after the model answered: response.text || default.
RecommendationFrom(inputData, responseText) ==
  [recommendations |-> inputData.filteredProducts,
   reasoning |-> IF responseText = <<>> THEN DefaultReasoning ELSE "model-text",
   totalFound |-> inputData.totalMatched]

(***************************************************************************)
(* shopping-workflow: check-stock step                                      *)
(***************************************************************************)

\* The number of alternatives check-stock proposes at most.
MaxAlternatives == 3

StepHasStock(product, requestedQty) == product.stock >= requestedQty

\* The filter without its test of the category.
IsAlternativeAnyCategory(p, product, requestedQty) ==
  /\ p.id # product.id
  /\ p.stock >= requestedQty

IsAlternative(p, product, requestedQty) ==
  /\ p.id # product.id
  /\ p.category = product.category
  /\ p.stock >= requestedQty

CheckStockStepExecute(inputData) ==
  LET product == FindById(sampleProducts, inputData.productId)
      requestedQty == QuantityOrOne(inputData.quantity)
  IN  IF product = Undefined
      THEN [productId |-> inputData.productId,
            productName |-> UnknownName,
            currentStock |-> 0,
            isAvailable |-> FALSE,
            alternatives |-> <<>>]
      ELSE LET pr == ValueOf(product)
               isAvailable == StepHasStock(pr, requestedQty)
           IN  [productId |-> pr.id,
                productName |-> pr.name,
                currentStock |-> pr.stock,
                isAvailable |-> isAvailable,
                alternatives |->
                  IF ~isAvailable
                  THEN SliceFirst(
                         SelectSeq(sampleProducts,
                                LAMBDA p : IsAlternative(p, pr, requestedQty)),
                         MaxAlternatives)
                  ELSE <<>>]

(***************************************************************************)
(* shopping-workflow: the product-recommendation workflow                   *)
(***************************************************************************)

\* The first two steps chained the other way round.
WorkflowChainSwapped ==
  <<"search-and-filter", "analyze-user-request", "generate-recommendation">>

\* .then(analyzeUserRequest).then(searchAndFilter).then(generateRecommendation)
WorkflowChain ==
  <<"analyze-user-request", "search-and-filter", "generate-recommendation">>

Event(ev, step, data) == [ev |-> ev, step |-> step, data |-> data]

IdleRun ==
  [status |-> "idle", next |-> 0, phase |-> "ready", input |-> <<>>,
   data |-> <<>>, log |-> <<>>, agent |-> TRUE]

\* run.start({ inputData }): the first step of the chain is next.
StartedRun(inputData, agentRegistered) ==
  [status |-> "running", next |-> 1, phase |-> "ready", input |-> inputData,
   data |-> inputData, log |-> <<>>, agent |-> agentRegistered]

\* A step returned out: the next step of the chain receives it, and the run
\* succeeds with it after the last step.
AfterStepReturn(w, out) ==
  [w EXCEPT !.data = out,
            !.log = Append(@, Event("end", WorkflowChain[w.next], out)),
            !.phase = "ready",
            !.next = @ + 1,
            !.status = IF w.next = Len(WorkflowChain) THEN "success" ELSE "running"]

\* A step threw: the run fails and no further step is invoked.
AfterStepThrow(w) ==
  [w EXCEPT !.log = Append(@, Event("throw", WorkflowChain[w.next], <<>>)),
            !.phase = "ready",
            !.status = "failed"]

\* await agent.generate(...): the step is suspended until the model answers.
AwaitGenerate(w) ==
  [w EXCEPT !.log = Append(@, Event("generate", WorkflowChain[w.next], <<>>)),
            !.phase = "awaiting"]

\* response.text of the answer the awaiting step received.
Responded(w, text) ==
  [w EXCEPT !.log = Append(@, Event("response", WorkflowChain[w.next], text))]

Invoked(w) ==
  [w EXCEPT !.log = Append(@, Event("start", WorkflowChain[w.next], w.data))]

StepReady(id) ==
  /\ wf.status = "running"
  /\ wf.phase = "ready"
  /\ wf.next <= Len(WorkflowChain)
  /\ WorkflowChain[wf.next] = id

StepAwaiting(id) ==
  /\ wf.status = "running"
  /\ wf.phase = "awaiting"
  /\ WorkflowChain[wf.next] = id

\* Reading .length of a field the input does not have is a TypeError.
HasFields(inputData, fields) == fields \subseteq DOMAIN inputData

(***************************************************************************)
(* Inputs of the workflows                                                  *)
(***************************************************************************)

LB == Punct("{")
RB == Punct("}")
LS == Punct("[")
RS == Punct("]")
COLON == Punct(":")
COMMA == Punct(",")

UserMessages ==
  { \* 1万円以下でPC周辺機器を探しています
    <<"1", "u4e07", "u5186", "u4ee5", "u4e0b", "u3067", "P", "C", "u5468", "u8fba", "u6a5f", "u5668", "u3092", "u63a2", "u3057", "u3066", "u3044", "u307e", "u3059">>,
    <<"P", "r", "o">>,
    <<"p", "r", "o">>,
    \* スピーカー
    <<"u30b9", "u30d4", "u30fc", "u30ab", "u30fc">>,
    <<>> }

\* { "priceRange": { "min": null, "max": 10000 },
\*   "preferredCategories": ["PC周辺機器"], "keywords": [],
\*   "priorityFactors": ["price"] }
ResponseBudgetPeripherals ==
  << LB, Str(<<"p", "r", "i", "c", "e", "R", "a", "n", "g", "e">>), COLON,
           LB, Str(<<"m", "i", "n">>), COLON, Null, COMMA, Str(<<"m", "a", "x">>), COLON, Num(10000), RB, COMMA,
         Str(<<"p", "r", "e", "f", "e", "r", "r", "e", "d", "C", "a", "t", "e", "g", "o", "r", "i", "e", "s">>), COLON, LS, Str(<<"P", "C", "u5468", "u8fba", "u6a5f", "u5668">>), RS, COMMA,
         Str(<<"k", "e", "y", "w", "o", "r", "d", "s">>), COLON, LS, RS, COMMA,
         Str(<<"p", "r", "i", "o", "r", "i", "t", "y", "F", "a", "c", "t", "o", "r", "s">>), COLON, LS, Str(<<"p", "r", "i", "c", "e">>), RS,
     RB >>

\* { "priceRange": null, "keywords": ["スピーカー"],
\*   "priorityFactors": ["stock", "price"] }
ResponseNullRange ==
  << LB, Str(<<"p", "r", "i", "c", "e", "R", "a", "n", "g", "e">>), COLON, Null, COMMA,
         Str(<<"k", "e", "y", "w", "o", "r", "d", "s">>), COLON, LS, Str(<<"u30b9", "u30d4", "u30fc", "u30ab", "u30fc">>), RS, COMMA,
         Str(<<"p", "r", "i", "o", "r", "i", "t", "y", "F", "a", "c", "t", "o", "r", "s">>), COLON, LS, Str(<<"s", "t", "o", "c", "k">>), COMMA, Str(<<"p", "r", "i", "c", "e">>), RS,
     RB >>

\* { "priceRange": { "min": 5900 },
\*   "preferredCategories": ["オーディオ", "ウェアラブル"], "priorityFactors": [] }
ResponseMinOnly ==
  << LB, Str(<<"p", "r", "i", "c", "e", "R", "a", "n", "g", "e">>), COLON, LB, Str(<<"m", "i", "n">>), COLON, Num(5900), RB, COMMA,
         Str(<<"p", "r", "e", "f", "e", "r", "r", "e", "d", "C", "a", "t", "e", "g", "o", "r", "i", "e", "s">>), COLON,
           LS, Str(<<"u30aa", "u30fc", "u30c7", "u30a3", "u30aa">>), COMMA, Str(<<"u30a6", "u30a7", "u30a2", "u30e9", "u30d6", "u30eb">>), RS, COMMA,
         Str(<<"p", "r", "i", "o", "r", "i", "t", "y", "F", "a", "c", "t", "o", "r", "s">>), COLON, LS, RS,
     RB >>

\* { "priceRange": { "min": 30000, "max": null }, "keywords": ["zzz"] }
ResponseTooExpensive ==
  << LB, Str(<<"p", "r", "i", "c", "e", "R", "a", "n", "g", "e">>), COLON,
           LB, Str(<<"m", "i", "n">>), COLON, Num(30000), COMMA, Str(<<"m", "a", "x">>), COLON, Null, RB, COMMA,
         Str(<<"k", "e", "y", "w", "o", "r", "d", "s">>), COLON, LS, Str(<<"z", "z", "z">>), RS,
     RB >>

\* { "priceRange": { "min": 0, "max": 24900 }, "keywords": ["zzz"],
\*   "priorityFactors": ["popularity"] }
ResponseWholeRange ==
  << LB, Str(<<"p", "r", "i", "c", "e", "R", "a", "n", "g", "e">>), COLON,
           LB, Str(<<"m", "i", "n">>), COLON, Num(0), COMMA, Str(<<"m", "a", "x">>), COLON, Num(24900), RB, COMMA,
         Str(<<"k", "e", "y", "w", "o", "r", "d", "s">>), COLON, LS, Str(<<"z", "z", "z">>), RS, COMMA,
         Str(<<"p", "r", "i", "o", "r", "i", "t", "y", "F", "a", "c", "t", "o", "r", "s">>), COLON, LS, Str(<<"p", "o", "p", "u", "l", "a", "r", "i", "t", "y">>), RS,
     RB >>

\* { "priceRange": { "min": 10000, "max": null } }
ResponseNullMax ==
  << LB, Str(<<"p", "r", "i", "c", "e", "R", "a", "n", "g", "e">>), COLON,
           LB, Str(<<"m", "i", "n">>), COLON, Num(10000), COMMA, Str(<<"m", "a", "x">>), COLON, Null, RB,
     RB >>

\* { "keywords": ["a", ] }
ResponseTrailingComma ==
  << LB, Str(<<"k", "e", "y", "w", "o", "r", "d", "s">>), COLON, LS, Str(<<"a">>), COMMA, RS, RB >>

\* { "priceRange": { "min": 1000 }
ResponseTruncated ==
  << LB, Str(<<"p", "r", "i", "c", "e", "R", "a", "n", "g", "e">>), COLON, LB, Str(<<"m", "i", "n">>), COLON, Num(1000), RB >>

Prose == Word(<<"t", "e", "x", "t">>)

Responses ==
  { <<>>,
    <<Prose>>,
    <<Prose, RB, Prose, LB>>,
    <<LB, Prose>>,
    <<LB, RB>>,
    <<LB, Prose, RB>>,
    <<LB, RB, Prose, LB, RB>>,
    <<Prose>> \o ResponseBudgetPeripherals \o <<Prose>>,
    ResponseBudgetPeripherals,
    ResponseNullRange,
    ResponseMinOnly,
    ResponseTooExpensive,
    ResponseWholeRange,
    ResponseNullMax,
    ResponseTrailingComma,
    ResponseTruncated }

\* response.text of the recommendation comment: empty or some prose.
CommentTexts == { <<>>, <<Prose>> }

\* [], ["PC周辺機器"], ["pc"], ["オーディオ", "ウェアラブル"], ["pro"]
CategoryLists ==
  { <<>>,
    << <<"P", "C", "u5468", "u8fba", "u6a5f", "u5668">> >>,
    << <<"p", "c">> >>,
    << <<"u30aa", "u30fc", "u30c7", "u30a3", "u30aa">>, <<"u30a6", "u30a7", "u30a2", "u30e9", "u30d6", "u30eb">> >>,
    << <<"p", "r", "o">> >> }

\* [], [""], ["pro"], ["PRO"], ["スピーカー", "マウス"], ["zzz"], ["zzz", "搭載"]
KeywordLists ==
  { <<>>,
    << <<>> >>,
    << <<"p", "r", "o">> >>,
    << <<"P", "R", "O">> >>,
    << <<"u30b9", "u30d4", "u30fc", "u30ab", "u30fc">>, <<"u30de", "u30a6", "u30b9">> >>,
    << <<"z", "z", "z">> >>,
    << <<"z", "z", "z">>, <<"u642d", "u8f09">> >> }

PriorityLists ==
  { <<>>, <<PRICE>>, <<STOCK>>, <<QUALITY>>, <<POPULARITY>>,
    <<PRICE, STOCK>>, <<STOCK, PRICE>> }

(***************************************************************************)
(* ec-shop: POST /api/chat                                                  *)
(***************************************************************************)

\* stopWhen: stepCountIs(6)
StepLimitSix == 5 + 1

\* stopWhen: stepCountIs(5)
StepLimit == 5

\* Array.prototype.join(""): the texts one after the other.
RECURSIVE Join(_)
Join(texts) ==
  IF texts = <<>> THEN <<>> ELSE Head(texts) \o Join(Tail(texts))

\* The parts joined without the filter on their type.
MessageContentAllParts(msg) ==
  IF msg.parts = Undefined THEN <<>>
  ELSE LET parts == ValueOf(msg.parts)
       IN  Join([i \in 1..Len(parts) |-> parts[i].text])

\* msg.parts?.filter(part => part.type === "text").map(part => part.text)
\*   .join("") || ""
MessageContent(msg) ==
  IF msg.parts = Undefined THEN <<>>
  ELSE LET textParts == SelectSeq(ValueOf(msg.parts), LAMBDA part : part.type = "text")
           texts == [i \in 1..Len(textParts) |-> textParts[i].text]
       IN  Join(texts)

ConvertMessages(uiMessages) ==
  [i \in 1..Len(uiMessages) |->
     [role |-> uiMessages[i].role, content |-> MessageContent(uiMessages[i])]]

\* No catch block: the error leaves POST.
Rethrow(error) ==
  [status |-> 0, body |-> "", generation |-> Undefined,
   caught |-> "none", escaped |-> error]

\* The catch block of POST.
CatchError(error) ==
  [status |-> 500, body |-> "Internal Server Error", generation |-> Undefined,
   caught |-> error, escaped |-> "none"]

\* POST without if (!agent): the missing agent's getInstructions is called,
\* which throws a TypeError.
PostResponseAgentUnchecked(req, fails) ==
  IF req.kind = "invalid-json" THEN CatchError("SyntaxError")
  ELSE IF req.kind \in {"no-messages", "not-array", "bad-parts"} THEN CatchError("TypeError")
  ELSE LET messages == ConvertMessages(req.messages)
       IN  IF fails = "getAgent-throws" THEN CatchError("Error")
           ELSE IF fails = "getAgent-undefined" THEN CatchError("TypeError")
           ELSE IF fails = "getInstructions-rejects" THEN CatchError("Error")
           ELSE IF fails = "streamText-throws" THEN CatchError("Error")
           ELSE [status |-> 200, body |-> "text-stream",
                 generation |-> Some([messages |-> messages,
                                      tools |-> {"search-products", "get-product-detail"},
                                      stopWhen |-> StepLimit]),
                 caught |-> "none", escaped |-> "none"]

\* A request body: req.json() rejects ("invalid-json"), or gives an object
\* whose messages field is undefined ("no-messages"), no array ("not-array"),
\* an array with an element whose parts is no array ("bad-parts"), or an
\* array of UI messages ("messages").
\* fails names the call that fails in this request, if any.
PostResponse(req, fails) ==
  IF req.kind = "invalid-json" THEN CatchError("SyntaxError")
  ELSE IF req.kind \in {"no-messages", "not-array", "bad-parts"} THEN CatchError("TypeError")
  ELSE LET messages == ConvertMessages(req.messages)
       IN  IF fails = "getAgent-throws" THEN CatchError("Error")
           ELSE IF fails = "getAgent-undefined"
           THEN [status |-> 404, body |-> "Agent not found", generation |-> Undefined,
                 caught |-> "none", escaped |-> "none"]
           ELSE IF fails = "getInstructions-rejects" THEN CatchError("Error")
           ELSE IF fails = "streamText-throws" THEN CatchError("Error")
           ELSE [status |-> 200, body |-> "text-stream",
                 generation |-> Some([messages |-> messages,
                                      tools |-> {"search-products", "get-product-detail"},
                                      stopWhen |-> StepLimit]),
                 caught |-> "none", escaped |-> "none"]

\* Largest number of messages in a request, and of parts in all its messages.
MaxMessages == 2
MaxParts == 2

SeqsUpTo(S, n) == UNION { [1..k -> S] : k \in 0..n }

Parts ==
  { [type |-> "text", text |-> <<"a">>],
    [type |-> "text", text |-> <<"b">>],
    [type |-> "reasoning", text |-> <<"r">>] }

UIMessages ==
  { [role |-> r, parts |-> p] :
      r \in {"user", "assistant"}, p \in Optional(SeqsUpTo(Parts, MaxParts)) }

RECURSIVE PartCount(_)
PartCount(messages) ==
  IF messages = <<>> THEN 0
  ELSE (IF Head(messages).parts = Undefined THEN 0 ELSE Len(ValueOf(Head(messages).parts)))
       + PartCount(Tail(messages))

Requests ==
  { [kind |-> k, messages |-> <<>>] :
      k \in {"invalid-json", "no-messages", "not-array", "bad-parts"} }
  \cup { [kind |-> "messages", messages |-> m] :
           m \in { s \in SeqsUpTo(UIMessages, MaxMessages) : PartCount(s) <= MaxParts } }

Failures ==
  { "none", "getAgent-throws", "getAgent-undefined", "getInstructions-rejects",
    "streamText-throws" }

(***************************************************************************)
(* src/src/mastra/scorers/shopping-scorer.ts                                *)
(*                                                                          *)
(* A score, a weight or a sub-score is a decimal number with at most four   *)
(* decimals, kept as its number of ten-thousandths.  Dec(h) is the decimal  *)
(* of h hundredths: Dec(15) is 0.15 and Dec(100) is 1.  The sums and the    *)
(* products below are those of decimal arithmetic; the rounding of binary   *)
(* floating point (one unit in the last place) is not represented.          *)
(***************************************************************************)
Dec(hundredths) == 100 * hundredths

\* a * b for decimals: exact when a and b are whole hundredths.
Times(a, b) == (a * b) \div Dec(100)

Max(a, b) == IF a >= b THEN a ELSE b

Min(a, b) == IF a <= b THEN a ELSE b

\* Math.max(0, Math.min(1, score))
Clamp(score) == Max(Dec(0), Min(Dec(100), score))

\* A test for a missing flag only: a flag that is false passes it.
FalsyOnlyMissing(flag) == flag = Undefined

\* !r.flag : a missing flag is falsy
Falsy(flag) == flag = Undefined \/ ValueOf(flag) = FALSE

Truthy(flag) == ~Falsy(flag)

\* value ?? fallback
OrElse(value, fallback) == IF value = Undefined THEN fallback ELSE ValueOf(value)

\* results?.analyzeStepResult || {} for the price-accuracy scorer
NoPriceAnalysis ==
  [ hasPriceInfo |-> Undefined, isAccurate |-> Undefined,
    isClear |-> Undefined, confidence |-> Undefined ]

PriceAnalysisOf(results) ==
  IF results.analyzeStepResult = Undefined
    THEN NoPriceAnalysis
    ELSE ValueOf(results.analyzeStepResult)

\* The scorer with the weights of its two criteria exchanged.
PriceAccuracyGenerateScoreSwapped(results) ==
  LET r == PriceAnalysisOf(results)
      accurate == IF Truthy(r.isAccurate) THEN Dec(30) ELSE Dec(0)
      clear == IF Truthy(r.isClear) THEN Dec(50) ELSE Dec(0)
  IN IF Falsy(r.hasPriceInfo)
       THEN Dec(100)
       ELSE Clamp(Dec(0) + accurate + clear + Times(Dec(20), OrElse(r.confidence, Dec(100))))

\* priceAccuracyScorer.generateScore
PriceAccuracyGenerateScore(results) ==
  LET r == PriceAnalysisOf(results)
      accurate == IF Truthy(r.isAccurate) THEN Dec(50) ELSE Dec(0)
      clear == IF Truthy(r.isClear) THEN Dec(30) ELSE Dec(0)
  IN IF Falsy(r.hasPriceInfo)
       THEN Dec(100)
       ELSE Clamp(Dec(0) + accurate + clear + Times(Dec(20), OrElse(r.confidence, Dec(100))))

\* The weights with helpfulness lowered: they no longer sum to 1.
weightsLowHelpfulness ==
  [ politeness |-> Dec(15), helpfulness |-> Dec(20), relevance |-> Dec(30),
    proactiveness |-> Dec(10), clarity |-> Dec(15) ]

\* const weights = { politeness: 0.15, helpfulness: 0.3, ... }
weights ==
  [ politeness |-> Dec(15), helpfulness |-> Dec(30), relevance |-> Dec(30),
    proactiveness |-> Dec(10), clarity |-> Dec(15) ]

NoServiceAnalysis ==
  [ politeness |-> Undefined, helpfulness |-> Undefined, relevance |-> Undefined,
    proactiveness |-> Undefined, clarity |-> Undefined ]

ServiceAnalysisOf(results) ==
  IF results.analyzeStepResult = Undefined
    THEN NoServiceAnalysis
    ELSE ValueOf(results.analyzeStepResult)

\* customerServiceQualityScorer.generateScore
CustomerServiceGenerateScore(results) ==
  LET r == ServiceAnalysisOf(results)
      score ==
        Times(OrElse(r.politeness, Dec(50)), weights.politeness) +
        Times(OrElse(r.helpfulness, Dec(50)), weights.helpfulness) +
        Times(OrElse(r.relevance, Dec(50)), weights.relevance) +
        Times(OrElse(r.proactiveness, Dec(50)), weights.proactiveness) +
        Times(OrElse(r.clarity, Dec(50)), weights.clarity)
  IN Clamp(score)

NoStockAnalysis ==
  [ mentionsStock |-> Undefined, isAccurate |-> Undefined,
    providesAlternatives |-> Undefined, confidence |-> Undefined ]

StockAnalysisOf(results) ==
  IF results.analyzeStepResult = Undefined
    THEN NoStockAnalysis
    ELSE ValueOf(results.analyzeStepResult)

\* stockInfoAccuracyScorer.generateScore
StockInfoGenerateScore(results) ==
  LET r == StockAnalysisOf(results)
      accurate == IF Truthy(r.isAccurate) THEN Dec(60) ELSE Dec(0)
      alternatives == IF Truthy(r.providesAlternatives) THEN Dec(20) ELSE Dec(0)
  IN IF Falsy(r.mentionsStock)
       THEN Dec(100)
       ELSE Clamp(Dec(0) + accurate + alternatives
                    + Times(Dec(20), OrElse(r.confidence, Dec(100))))

\* The analyses a judge can return: the schema's booleans, a confidence and
\* sub-scores between 0 and 1; a field or the whole analysis can be missing.
ConfidenceValues == { Dec(0), Dec(25), Dec(50), Dec(75), Dec(100) }

SubScoreValues == { Dec(0), Dec(25), Dec(50), Dec(100) }

PriceAnalyses ==
  [ hasPriceInfo : Optional(BOOLEAN), isAccurate : Optional(BOOLEAN),
    isClear : Optional(BOOLEAN), confidence : Optional(ConfidenceValues) ]

ServiceAnalyses ==
  [ politeness : Optional(SubScoreValues), helpfulness : Optional(SubScoreValues),
    relevance : Optional(SubScoreValues), proactiveness : Optional(SubScoreValues),
    clarity : Optional(SubScoreValues) ]

StockAnalyses ==
  [ mentionsStock : Optional(BOOLEAN), isAccurate : Optional(BOOLEAN),
    providesAlternatives : Optional(BOOLEAN), confidence : Optional(ConfidenceValues) ]

ResultsOf(analyses) == [ analyzeStepResult : Optional(analyses) ]

(***************************************************************************)
(* ec-shop: ChatWidget                                                      *)
(*                                                                          *)
(* widget holds the component's state: inputValue (useState), and status    *)
(* and messages of useChat.  requests counts the chat requests in flight.   *)
(* last is the event handled last with the state it found, so that what a   *)
(* handler did can be read off a single state.                              *)
(***************************************************************************)

\* Largest number of messages the user sends in one conversation.
MaxTurns == 2

IsWhitespace(c) == c = " "

\* String.prototype.trim
Trim(s) ==
  LET kept == { i \in 1..Len(s) : ~IsWhitespace(s[i]) }
  IN  IF kept = {} THEN <<>>
      ELSE SubSeq(s, CHOOSE i \in kept : \A j \in kept : i <= j,
                     CHOOSE i \in kept : \A j \in kept : i >= j)

\* const isLoading = status === "streaming" || status === "submitted"
IsLoading(w) == w.status = "streaming" \/ w.status = "submitted"

NoEvent == [event |-> "none", inputValue |-> <<>>, status |-> "ready", messages |-> <<>>]

InitialWidget ==
  [inputValue |-> <<>>, status |-> "ready", messages |-> <<>>, requests |-> 0,
   last |-> NoEvent]

\* sendMessage({ text }): the user's message joins the list, the status
\* becomes 'submitted' and the request to /api/chat is under way.
SendMessage(w, text) ==
  [w EXCEPT !.messages = Append(@, [role |-> "user", text |-> text]),
            !.status = "submitted",
            !.requests = @ + 1]

\* handleSubmit with if (!inputValue.trim()) return: the status is not
\* looked at.
HandleSubmitWhileLoading(w) ==
  IF Trim(w.inputValue) = <<>> THEN w
  ELSE [SendMessage(w, w.inputValue) EXCEPT !.inputValue = <<>>]

\* handleSubmit
HandleSubmit(w) ==
  IF Trim(w.inputValue) = <<>> \/ IsLoading(w) THEN w
  ELSE [SendMessage(w, w.inputValue) EXCEPT !.inputValue = <<>>]

\* What the user can have in the input field: nothing, blanks, text.
InputTexts == { <<>>, <<" ">>, <<"a">>, <<" ", "a", " ">> }

\* The event and the state its handler found.
Handling(event) ==
  [event |-> event, inputValue |-> widget.inputValue, status |-> widget.status,
   messages |-> widget.messages]

(***************************************************************************)
(* ec-shop: the generation started by streamText                            *)
(*                                                                          *)
(* stream is the loop of model calls of one chat request: whether it is     *)
(* still running, the number of steps done, the step limit it was given     *)
(* and how the last step finished ("tool-calls": the model asked for tool   *)
(* calls, which were executed; "stop": the model answered).                 *)
(***************************************************************************)

\* No generation is running.
NoStream == [active |-> FALSE, steps |-> 0, stopWhen |-> 0, finishReason |-> "none"]

\* streamText({ ..., stopWhen })
StartedStream(generation) ==
  [active |-> TRUE, steps |-> 0, stopWhen |-> generation.stopWhen, finishReason |-> "none"]

\* The generation a response of POST goes with.
StreamOf(response) ==
  IF response.generation = Undefined THEN NoStream
  ELSE StartedStream(ValueOf(response.generation))

\* stepCountIs(n): the stop condition holds when n steps were done.
StepCountIs(n, steps) == steps = n

\* A step was done: the loop goes on when the step made tool calls and the
\* stop condition does not hold.
AfterStep(s, finishReason) ==
  LET steps == s.steps + 1
  IN  [s EXCEPT !.steps = steps,
                !.finishReason = finishReason,
                !.active = finishReason = "tool-calls" /\ ~StepCountIs(s.stopWhen, steps)]

(***************************************************************************)
(* The state machine                                                        *)
(***************************************************************************)

Init ==
  /\ sampleProducts = SampleProductsLiteral
  /\ op = "none"
  /\ input = <<>>
  /\ output = <<>>
  /\ wf = IdleRun
  /\ widget = InitialWidget
  /\ stream = NoStream

Idle == op = "none" /\ wf.status = "idle"

Called(name, in, out) ==
  /\ op' = name
  /\ input' = in
  /\ output' = out

SearchContexts ==
  [keyword : Optional(KeywordStrings), category : Optional(CategoryStrings),
   minPrice : Optional(PriceValues), maxPrice : Optional(PriceValues)]

SearchProducts ==
  /\ Idle
  /\ \E context \in SearchContexts :
       Called("search-products", context, SearchProductsExecute(context))
  /\ UNCHANGED <<sampleProducts, wf, widget, stream>>

GetProductDetail ==
  /\ Idle
  /\ \E productId \in ProductIds :
       LET context == [productId |-> productId]
       IN  Called("get-product-detail", context, GetProductDetailExecute(context))
  /\ UNCHANGED <<sampleProducts, wf, widget, stream>>

GetCategories ==
  /\ Idle
  /\ Called("get-categories", <<>>, GetCategoriesExecute)
  /\ UNCHANGED <<sampleProducts, wf, widget, stream>>

StockContexts == [productId : ProductIds, quantity : Optional(QuantityValues)]

CheckStock ==
  /\ Idle
  /\ \E context \in StockContexts :
       Called("check-stock", context, CheckStockExecute(context))
  /\ UNCHANGED <<sampleProducts, wf, widget, stream>>

AgentSearchProducts ==
  /\ Idle
  /\ \E context \in SearchContexts :
       Called("agent:search-products", context, AgentSearchProductsExecute(context))
  /\ UNCHANGED <<sampleProducts, wf, widget, stream>>

AgentGetProductDetail ==
  /\ Idle
  /\ \E productId \in ProductIds :
       LET context == [productId |-> productId]
       IN  Called("agent:get-product-detail", context, AgentGetProductDetailExecute(context))
  /\ UNCHANGED <<sampleProducts, wf, widget, stream>>

Preferences ==
  [priceRange : [min : Optional(PriceValues), max : Optional(PriceValues)],
   preferredCategories : CategoryLists,
   keywords : KeywordLists,
   priorityFactors : PriorityLists]

\* search-and-filter invoked on its own with any preferences.
SearchAndFilterStep ==
  /\ Idle
  /\ \E inputData \in Preferences :
       /\ Called("step:search-and-filter", inputData, SearchAndFilterExecute(inputData))
       /\ sampleProducts' = CatalogAfterSearchAndFilter(inputData)
  /\ UNCHANGED <<wf, widget, stream>>

\* The stock-check workflow: its single step.
CheckStockStep ==
  /\ Idle
  /\ \E inputData \in StockContexts :
       Called("step:check-stock", inputData, CheckStockStepExecute(inputData))
  /\ UNCHANGED <<sampleProducts, wf, widget, stream>>

\* A failing call is combined with the requests of at most one message: what
\* the failure does is independent of the messages.
Post ==
  /\ Idle
  /\ \E req \in Requests, fails \in Failures :
       /\ fails = "none" \/ Len(req.messages) <= 1
       /\ Called("POST /api/chat", [req |-> req, fails |-> fails], PostResponse(req, fails))
       /\ stream' = StreamOf(PostResponse(req, fails))
  /\ UNCHANGED <<sampleProducts, wf, widget>>

\* The model asks for tool calls in this step; the tools are executed.
ToolCallStep ==
  /\ stream.active
  /\ stream' = AfterStep(stream, "tool-calls")
  /\ UNCHANGED <<sampleProducts, op, input, output, wf, widget>>

\* The model answers with text in this step.
TextStep ==
  /\ stream.active
  /\ stream' = AfterStep(stream, "stop")
  /\ UNCHANGED <<sampleProducts, op, input, output, wf, widget>>

PriceAccuracyScore ==
  /\ Idle
  /\ \E results \in ResultsOf(PriceAnalyses) :
       Called("scorer:price-accuracy", results, PriceAccuracyGenerateScore(results))
  /\ UNCHANGED <<sampleProducts, wf, widget, stream>>

CustomerServiceScore ==
  /\ Idle
  /\ \E results \in ResultsOf(ServiceAnalyses) :
       Called("scorer:customer-service-quality", results,
              CustomerServiceGenerateScore(results))
  /\ UNCHANGED <<sampleProducts, wf, widget, stream>>

StockInfoScore ==
  /\ Idle
  /\ \E results \in ResultsOf(StockAnalyses) :
       Called("scorer:stock-info-accuracy", results, StockInfoGenerateScore(results))
  /\ UNCHANGED <<sampleProducts, wf, widget, stream>>

\* onChange={(e) => setInputValue(e.target.value)}.  The handler itself does
\* not look at the status; that the field is disabled while loading is left
\* to the browser and not relied on here.
Change ==
  /\ Idle
  /\ \E text \in InputTexts :
       widget' = [widget EXCEPT !.inputValue = text, !.last = Handling("change")]
  /\ UNCHANGED <<sampleProducts, op, input, output, wf, stream>>

\* onSubmit={handleSubmit}: a submit event in any state of the widget.
Submit ==
  /\ Idle
  /\ Len(SelectSeq(widget.messages, LAMBDA m : m.role = "user")) < MaxTurns
  /\ widget' = [HandleSubmit(widget) EXCEPT !.last = Handling("submit")]
  /\ UNCHANGED <<sampleProducts, op, input, output, wf, stream>>

\* useChat: the response starts to arrive, the assistant's message appears.
ResponseStarts ==
  /\ Idle
  /\ widget.status = "submitted"
  /\ widget' = [widget EXCEPT !.status = "streaming",
                              !.messages = Append(@, [role |-> "assistant", text |-> <<"r">>]),
                              !.last = Handling("status")]
  /\ UNCHANGED <<sampleProducts, op, input, output, wf, stream>>

\* useChat: the response is complete.
ResponseFinishes ==
  /\ Idle
  /\ widget.status = "streaming"
  /\ widget' = [widget EXCEPT !.status = "ready",
                              !.requests = @ - 1,
                              !.last = Handling("status")]
  /\ UNCHANGED <<sampleProducts, op, input, output, wf, stream>>

\* useChat: the request failed, before or during the response.
RequestFails ==
  /\ Idle
  /\ IsLoading(widget)
  /\ widget' = [widget EXCEPT !.status = "error",
                              !.requests = @ - 1,
                              !.last = Handling("status")]
  /\ UNCHANGED <<sampleProducts, op, input, output, wf, stream>>

\* The operation's result was delivered to its caller; of a streamed
\* response that is the end of the stream.
Return ==
  /\ op # "none"
  /\ ~stream.active
  /\ op' = "none"
  /\ input' = <<>>
  /\ output' = <<>>
  /\ stream' = NoStream
  /\ UNCHANGED <<sampleProducts, wf, widget>>

StartRun ==
  /\ Idle
  /\ \E userMessage \in UserMessages, agentRegistered \in BOOLEAN :
       wf' = StartedRun([userMessage |-> userMessage], agentRegistered)
  /\ UNCHANGED <<sampleProducts, op, input, output, widget, stream>>

InvokeAnalyzeUserRequest ==
  /\ StepReady("analyze-user-request")
  /\ wf' = IF ~wf.agent THEN AfterStepThrow(Invoked(wf))
           ELSE AwaitGenerate(Invoked(wf))
  /\ UNCHANGED <<sampleProducts, op, input, output, widget, stream>>

InvokeSearchAndFilter ==
  /\ StepReady("search-and-filter")
  /\ IF ~HasFields(wf.data, {"preferredCategories", "priceRange", "keywords", "priorityFactors"})
     THEN /\ wf' = AfterStepThrow(Invoked(wf))
          /\ UNCHANGED sampleProducts
     ELSE /\ wf' = AfterStepReturn(Invoked(wf), SearchAndFilterExecute(wf.data))
          /\ sampleProducts' = CatalogAfterSearchAndFilter(wf.data)
  /\ UNCHANGED <<op, input, output, widget, stream>>

\* generate-recommendation without its early return for an empty list.
InvokeGenerateRecommendationAlwaysAsks ==
  /\ StepReady("generate-recommendation")
  /\ wf' = IF ~wf.agent \/ ~HasFields(wf.data, {"filteredProducts"})
           THEN AfterStepThrow(Invoked(wf))
           ELSE AwaitGenerate(Invoked(wf))
  /\ UNCHANGED <<sampleProducts, op, input, output, widget, stream>>

InvokeGenerateRecommendation ==
  /\ StepReady("generate-recommendation")
  /\ wf' = IF ~wf.agent \/ ~HasFields(wf.data, {"filteredProducts"})
           THEN AfterStepThrow(Invoked(wf))
           ELSE IF Len(wf.data.filteredProducts) = 0
           THEN AfterStepReturn(Invoked(wf), EmptyRecommendation)
           ELSE AwaitGenerate(Invoked(wf))
  /\ UNCHANGED <<sampleProducts, op, input, output, widget, stream>>

\* agent.generate resolves in analyze-user-request.
AnalyzeGenerateResolves ==
  /\ StepAwaiting("analyze-user-request")
  /\ \E text \in Responses :
       wf' = AfterStepReturn(Responded(wf, text),
                             AnalyzeResponse(wf.data.userMessage, text))
  /\ UNCHANGED <<sampleProducts, op, input, output, widget, stream>>

\* agent.generate resolves in generate-recommendation.
RecommendGenerateResolves ==
  /\ StepAwaiting("generate-recommendation")
  /\ \E text \in CommentTexts :
       wf' = AfterStepReturn(Responded(wf, text), RecommendationFrom(wf.data, text))
  /\ UNCHANGED <<sampleProducts, op, input, output, widget, stream>>

\* agent.generate rejects: the awaiting step throws.
GenerateRejects ==
  /\ wf.status = "running"
  /\ wf.phase = "awaiting"
  /\ wf' = AfterStepThrow(wf)
  /\ UNCHANGED <<sampleProducts, op, input, output, widget, stream>>

\* run.start() settled and its result was read.
RunEnds ==
  /\ wf.status \in {"success", "failed"}
  /\ wf' = IdleRun
  /\ UNCHANGED <<sampleProducts, op, input, output, widget, stream>>

\* The steps of the server: tools, steps, scorers, endpoint and workflow.
ServerNext ==
  \/ SearchProducts
  \/ GetProductDetail
  \/ GetCategories
  \/ CheckStock
  \/ AgentSearchProducts
  \/ AgentGetProductDetail
  \/ SearchAndFilterStep
  \/ CheckStockStep
  \/ Post
  \/ ToolCallStep
  \/ TextStep
  \/ PriceAccuracyScore
  \/ CustomerServiceScore
  \/ StockInfoScore
  \/ Return
  \/ StartRun
  \/ InvokeAnalyzeUserRequest
  \/ InvokeSearchAndFilter
  \/ InvokeGenerateRecommendation
  \/ AnalyzeGenerateResolves
  \/ RecommendGenerateResolves
  \/ GenerateRejects
  \/ RunEnds

\* The steps of the chat widget in the browser.
WidgetNext ==
  \/ Change
  \/ Submit
  \/ ResponseStarts
  \/ ResponseFinishes
  \/ RequestFails

\* The widget's state and the server's state are disjoint, so their steps
\* commute: the server's steps are taken with the widget as it was mounted,
\* the widget's steps with the server at rest.
Next ==
  \/ widget = InitialWidget /\ ServerNext
  \/ WidgetNext

Spec == Init /\ [][Next]_vars

\* The catalog searches alone.
SearchNext ==
  \/ SearchProducts
  \/ AgentSearchProducts
  \/ SearchAndFilterStep
  \/ Return

SearchSpec == Init /\ [][SearchNext]_vars

\* The lookups by product id and the category list alone.
LookupNext ==
  \/ GetProductDetail
  \/ GetCategories
  \/ CheckStock
  \/ AgentGetProductDetail
  \/ CheckStockStep
  \/ Return

LookupSpec == Init /\ [][LookupNext]_vars

\* The product-recommendation workflow alone.
WorkflowNext ==
  \/ StartRun
  \/ InvokeAnalyzeUserRequest
  \/ InvokeSearchAndFilter
  \/ InvokeGenerateRecommendation
  \/ AnalyzeGenerateResolves
  \/ RecommendGenerateResolves
  \/ GenerateRejects
  \/ RunEnds

WorkflowSpec == Init /\ [][WorkflowNext]_vars

\* The chat endpoint alone.
ChatNext ==
  \/ Post
  \/ ToolCallStep
  \/ TextStep
  \/ Return

\* The chat widget alone.
WidgetSpec == Init /\ [][WidgetNext]_vars

ChatSpec == Init /\ [][ChatNext]_vars

\* The scorers alone.
ScorerNext ==
  \/ PriceAccuracyScore
  \/ CustomerServiceScore
  \/ StockInfoScore
  \/ Return

ScorerSpec == Init /\ [][ScorerNext]_vars

\* The operations on the catalog alone.
CatalogNext ==
  \/ SearchProducts
  \/ GetProductDetail
  \/ GetCategories
  \/ CheckStock
  \/ SearchAndFilterStep
  \/ CheckStockStep
  \/ Return

CatalogSpec == Init /\ [][CatalogNext]_vars

\* The product-recommendation workflow and its search-and-filter step on its
\* own.
RecommendationNext ==
  \/ SearchAndFilterStep
  \/ Return
  \/ StartRun
  \/ InvokeAnalyzeUserRequest
  \/ InvokeSearchAndFilter
  \/ InvokeGenerateRecommendation
  \/ AnalyzeGenerateResolves
  \/ RecommendGenerateResolves
  \/ GenerateRejects
  \/ RunEnds

RecommendationSpec == Init /\ [][RecommendationNext]_vars

(***************************************************************************)
(* Properties of the catalog searches                                       *)
(***************************************************************************)

IsSearchTool == op \in {"search-products", "agent:search-products"}

IsSearchStep == op = "step:search-and-filter"

Elements(seq) == { seq[i] : i \in 1..Len(seq) }

\* category contains sub, letter case ignored
ContainsIgnoringCase(category, sub) ==
  \E i \in 0..(Len(category) - Len(sub)) :
    \A j \in 1..Len(sub) : ToLowerChar(category[i + j]) = ToLowerChar(sub[j])

\* C1: whenever a category is supplied, every product a search returns has a
\* category containing it (case-insensitively), for both search-products
\* tools; the search-and-filter step with a non-empty preferredCategories
\* returns only products whose category contains one of the preferred ones.
C1_CategoryOnlyMatching ==
  /\ (IsSearchTool /\ input.category # Undefined) =>
       \A p \in Elements(output.products) :
         ContainsIgnoringCase(p.category, ValueOf(input.category))
  /\ (IsSearchStep /\ Len(input.preferredCategories) > 0) =>
       \A p \in Elements(output.filteredProducts) :
         \E cat \in Elements(input.preferredCategories) :
           ContainsIgnoringCase(p.category, cat)

\* The category "pc" keeps the three PC周辺機器 products and drops the others.
C1_Witness ==
  /\ op = "search-products"
  /\ input.category = Some(<<"p", "c">>)
  /\ input.keyword = Undefined
  /\ Len(output.products) = 3

\* C2: every product a search returns has minPrice <= price when a minimum
\* is supplied and price <= maxPrice when a maximum is supplied, so a search
\* with minPrice > maxPrice returns nothing; for the tools and for the
\* search-and-filter step, also when its keyword filter is skipped.
C2_PriceWithinBounds ==
  /\ IsSearchTool =>
       /\ \A p \in Elements(output.products) :
            /\ input.minPrice # Undefined => ValueOf(input.minPrice) <= p.price
            /\ input.maxPrice # Undefined => p.price <= ValueOf(input.maxPrice)
       /\ ( /\ input.minPrice # Undefined
            /\ input.maxPrice # Undefined
            /\ ValueOf(input.minPrice) > ValueOf(input.maxPrice) )
          => output.products = <<>>
  /\ IsSearchStep =>
       /\ \A p \in Elements(output.filteredProducts) :
            /\ input.priceRange.min # Undefined => ValueOf(input.priceRange.min) <= p.price
            /\ input.priceRange.max # Undefined => p.price <= ValueOf(input.priceRange.max)
       /\ ( /\ input.priceRange.min # Undefined
            /\ input.priceRange.max # Undefined
            /\ ValueOf(input.priceRange.min) > ValueOf(input.priceRange.max) )
          => output.filteredProducts = <<>> /\ output.totalMatched = 0

\* No product matches "zzz", the keyword filter is skipped, and the three
\* products priced 5900..10000 remain (5900 itself is kept).
C2_Witness ==
  /\ IsSearchStep
  /\ input.keywords = << <<"z", "z", "z">> >>
  /\ input.preferredCategories = <<>>
  /\ input.priceRange.min = Some(5900)
  /\ input.priceRange.max = Some(10000)
  /\ output.totalMatched = 3
  /\ \E p \in Elements(output.filteredProducts) : p.price = 5900

(***************************************************************************)
(* Properties of the lookups                                                *)
(***************************************************************************)

IsCheckStock == op \in {"check-stock", "step:check-stock"}

InCatalog(productId) == \E p \in Elements(SampleProductsLiteral) : p.id = productId

CatalogProduct(productId) ==
  CHOOSE p \in Elements(SampleProductsLiteral) : p.id = productId

\* The quantity asked for: the given one, 1 when none is given.
RequestedQuantity(quantity) == IF quantity = Undefined THEN 1 ELSE ValueOf(quantity)

\* C3: for every product id of the catalog and every requested quantity,
\* check-stock (tool and workflow step) returns isAvailable = (stock >=
\* requested quantity) and currentStock = the product's stock.
C3_StockCheck ==
  (IsCheckStock /\ InCatalog(input.productId)) =>
    /\ output.isAvailable =
         (CatalogProduct(input.productId).stock >= RequestedQuantity(input.quantity))
    /\ output.currentStock = CatalogProduct(input.productId).stock

\* 16 of product "4" (stock 15) are not available.
C3_Witness ==
  /\ op = "check-stock"
  /\ input.productId = <<"4">>
  /\ input.quantity = Some(16)
  /\ output.isAvailable = FALSE
  /\ output.currentStock = 15

\* C4: for a product id that is not in the catalog the lookups return a
\* not-found value: get-product-detail gives product = null (and found =
\* false in shopping-tools); check-stock gives the given productId, the
\* name "不明", currentStock 0, isAvailable false and, in the workflow step,
\* no alternatives.
C4_NotFoundSentinel ==
  (op # "none" /\ op # "get-categories" /\ "productId" \in DOMAIN input
     /\ ~InCatalog(input.productId)) =>
    /\ op \in {"get-product-detail", "agent:get-product-detail"} =>
         output.product = Undefined
    /\ op = "get-product-detail" => output.found = FALSE
    /\ IsCheckStock =>
         /\ output.productId = input.productId
         /\ output.productName = <<"u4e0d", "u660e">>
         /\ output.currentStock = 0
         /\ output.isAvailable = FALSE
    /\ op = "step:check-stock" => output.alternatives = <<>>

\* Product "9" does not exist.
C4_Witness ==
  /\ op = "get-product-detail"
  /\ input.productId = <<"9">>
  /\ output.product = Undefined
  /\ output.found = FALSE

\* C5: searchProductsTool of shopping-tools returns exactly the catalog
\* products satisfying every supplied predicate (keyword in name, description
\* or category; category in the product category; minPrice <= price <=
\* maxPrice; letter case ignored), in catalog order and without duplicates,
\* with totalCount their number; an omitted or empty predicate filters
\* nothing, so the empty input returns all 8 products.
C5_Satisfies(p, context) ==
  /\ (context.keyword # Undefined /\ ValueOf(context.keyword) # <<>>) =>
       \/ ContainsIgnoringCase(p.name, ValueOf(context.keyword))
       \/ ContainsIgnoringCase(p.description, ValueOf(context.keyword))
       \/ ContainsIgnoringCase(p.category, ValueOf(context.keyword))
  /\ (context.category # Undefined /\ ValueOf(context.category) # <<>>) =>
       ContainsIgnoringCase(p.category, ValueOf(context.category))
  /\ context.minPrice # Undefined => ValueOf(context.minPrice) <= p.price
  /\ context.maxPrice # Undefined => p.price <= ValueOf(context.maxPrice)

C5_SearchIsExact ==
  op = "search-products" =>
    /\ output.products =
         SelectSeq(SampleProductsLiteral, LAMBDA p : C5_Satisfies(p, input))
    /\ output.totalCount = Len(output.products)
    /\ ( /\ input.keyword \in {Undefined, Some(<<>>)}
         /\ input.category \in {Undefined, Some(<<>>)}
         /\ input.minPrice = Undefined
         /\ input.maxPrice = Undefined )
       => output.totalCount = 8

\* "PRO" in category "pc" between 5900 and 10000: ゲーミングマウス Pro alone.
C5_Witness ==
  /\ op = "search-products"
  /\ input.keyword = Some(<<"P", "R", "O">>)
  /\ input.category = Some(<<"p", "c">>)
  /\ input.minPrice = Some(5900)
  /\ input.maxPrice = Some(10000)
  /\ output.totalCount = 1
  /\ output.products[1].id = <<"7">>

\* C6: the search-products tool registered on shoppingAssistantAgent returns
\* for every input the same products as searchProductsTool of shopping-tools
\* (its category filter being a substring match).
C6_AgentToolSameAsShoppingTool ==
  op = "agent:search-products" =>
    output.products = SearchProductsExecute(input).products

(***************************************************************************)
(* Properties of the product-recommendation workflow                        *)
(***************************************************************************)

AnalyzeStep == "analyze-user-request"

\* The text holds no "{" followed later by a "}", or the span from its first
\* "{" to its last "}" is no JSON.
C7_Unparsable(text) ==
  \/ ~\E i, j \in 1..Len(text) :
        i < j /\ IsPunct(text[i], "{") /\ IsPunct(text[j], "}")
  \/ JsonMatch(text) # Undefined /\ JsonParse(ValueOf(JsonMatch(text))) = Undefined

\* C7: when the model's response text holds no brace-delimited span, or the
\* span fails JSON parsing, analyze-user-request does not fail but returns
\* the defaults: no price bounds, no preferred categories, the user message
\* as the only keyword, and priorityFactors = ["quality"].
C7_FallsBackToDefaults ==
  \A i \in 1..Len(wf.log) :
    ( /\ wf.log[i].ev = "response"
      /\ wf.log[i].step = AnalyzeStep
      /\ C7_Unparsable(wf.log[i].data) )
    => /\ i < Len(wf.log)
       /\ wf.log[i + 1].ev = "end"
       /\ wf.log[i + 1].step = AnalyzeStep
       /\ wf.log[i + 1].data =
            [priceRange |-> [min |-> Undefined, max |-> Undefined],
             preferredCategories |-> <<>>,
             keywords |-> <<wf.input.userMessage>>,
             priorityFactors |-> << <<"q", "u", "a", "l", "i", "t", "y">> >>]

\* The response "{ text }" has a span that is no JSON.
C7_Witness ==
  /\ Len(wf.log) >= 4
  /\ wf.input.userMessage = <<"P", "r", "o">>
  /\ wf.log[3].ev = "response"
  /\ wf.log[3].step = AnalyzeStep
  /\ wf.log[3].data = <<LB, Prose, RB>>
  /\ wf.log[4].ev = "end"
  /\ wf.log[4].data.keywords = << <<"P", "r", "o">> >>

C10_Order ==
  <<"analyze-user-request", "search-and-filter", "generate-recommendation">>

C10_Starts == { i \in 1..Len(wf.log) : wf.log[i].ev = "start" }

\* The event at i is the n-th invocation of a step in this run.
C10_Nth(i) == Cardinality({ j \in C10_Starts : j <= i })

\* C10: in every run of the product-recommendation workflow the steps are
\* invoked in the order analyze-user-request, search-and-filter,
\* generate-recommendation, each at most once; a step is invoked only when
\* the one before it has returned, and receives what that one returned (the
\* first receives the run's input); once a step throws, no step runs.
C10_StepOrder ==
  /\ Cardinality(C10_Starts) <= Len(C10_Order)
  /\ \A i \in C10_Starts :
       /\ wf.log[i].step = C10_Order[C10_Nth(i)]
       /\ IF C10_Nth(i) = 1
          THEN i = 1 /\ wf.log[i].data = wf.input
          ELSE /\ wf.log[i - 1].ev = "end"
               /\ wf.log[i - 1].step = C10_Order[C10_Nth(i) - 1]
               /\ wf.log[i].data = wf.log[i - 1].data
  /\ \A i \in 1..Len(wf.log) :
       /\ C10_Nth(i) >= 1
       /\ wf.log[i].step = C10_Order[C10_Nth(i)]
       /\ wf.log[i].ev = "throw" => i = Len(wf.log) /\ wf.status = "failed"
  /\ wf.status = "success" => Cardinality(C10_Starts) = Len(C10_Order)

\* A run in which all three steps ran and products were recommended.
C10_Witness ==
  /\ wf.status = "success"
  /\ Cardinality(C10_Starts) = 3
  /\ wf.data.totalFound > 0
  /\ wf.log[Len(wf.log)].step = "generate-recommendation"

(***************************************************************************)
(* Properties of the chat endpoint                                          *)
(***************************************************************************)

IsPost == op = "POST /api/chat"

\* C8: any exception raised while POST handles a request (a body that is no
\* JSON, a messages field that is missing or no array, a failure to get the
\* agent's instructions or to start the generation) gives the response 500
\* "Internal Server Error"; no exception escapes POST.
C8_ExceptionsBecome500 ==
  IsPost =>
    /\ output.escaped = "none"
    /\ ( \/ input.req.kind \in {"invalid-json", "no-messages", "not-array", "bad-parts"}
         \/ input.fails \in {"getAgent-throws", "getInstructions-rejects",
                             "streamText-throws"} )
       => /\ output.status = 500
          /\ output.body = "Internal Server Error"
          /\ output.generation = Undefined

\* A body whose messages field is no array: uiMessages.map is a TypeError.
C8_Witness ==
  /\ IsPost
  /\ input.req.kind = "not-array"
  /\ output.status = 500
  /\ output.caught = "TypeError"

\* The texts of the parts of type "text", one after the other.
RECURSIVE C9_TextOf(_)
C9_TextOf(parts) ==
  IF parts = <<>> THEN <<>>
  ELSE LET last == parts[Len(parts)]
       IN  C9_TextOf(SubSeq(parts, 1, Len(parts) - 1))
             \o (IF last.type = "text" THEN last.text ELSE <<>>)

\* C9: the messages handed to the generation are as many as the incoming
\* ones and in their order; each keeps its role and has as content the texts
\* of its parts of type "text" in order, the other parts dropped, or "" when
\* it has no parts or no text parts.
C9_MessagesConverted ==
  (IsPost /\ output.generation # Undefined) =>
    LET sent == ValueOf(output.generation).messages
        got == input.req.messages
    IN  /\ Len(sent) = Len(got)
        /\ \A i \in 1..Len(got) :
             /\ sent[i].role = got[i].role
             /\ sent[i].content =
                  IF got[i].parts = Undefined THEN <<>>
                  ELSE C9_TextOf(ValueOf(got[i].parts))

\* An assistant message without parts, then a user message "b" + "a".
C9_Witness ==
  /\ IsPost
  /\ output.generation # Undefined
  /\ input.req.messages =
       << [role |-> "assistant", parts |-> Undefined],
          [role |-> "user",
           parts |-> Some(<< [type |-> "text", text |-> <<"b">>],
                             [type |-> "text", text |-> <<"a">>] >>)] >>
  /\ ValueOf(output.generation).messages =
       << [role |-> "assistant", content |-> <<>>],
          [role |-> "user", content |-> <<"b", "a">>] >>

(***************************************************************************)
(* Properties of the scorers                                                *)
(***************************************************************************)
IsPriceScore == op = "scorer:price-accuracy"

IsServiceScore == op = "scorer:customer-service-quality"

IsStockScore == op = "scorer:stock-info-accuracy"

HasAnalysis == input.analyzeStepResult # Undefined

Analysis == ValueOf(input.analyzeStepResult)

\* C11: the price-accuracy scorer returns exactly 1 whenever the analysis
\* reports hasPriceInfo = false, and the stock-info scorer returns exactly 1
\* whenever the analysis reports mentionsStock = false, whatever the other
\* fields of the analysis are.
C11_AbsentTopicScoresOne ==
  /\ (IsPriceScore /\ HasAnalysis /\ Analysis.hasPriceInfo = Some(FALSE))
       => output = Dec(100)
  /\ (IsStockScore /\ HasAnalysis /\ Analysis.mentionsStock = Some(FALSE))
       => output = Dec(100)

\* A response that does not mention stock is given 1 although no criterion
\* holds and the confidence is 0.
C11_Witness ==
  /\ IsStockScore
  /\ HasAnalysis
  /\ Analysis = [ mentionsStock |-> Some(FALSE), isAccurate |-> Some(FALSE),
                  providesAlternatives |-> Some(FALSE), confidence |-> Some(Dec(0)) ]
  /\ output = Dec(100)

\* 1 when the criterion is reported to hold, 0 when it is not or is missing.
Indicator(flag) == IF flag = Some(TRUE) THEN 1 ELSE 0

\* The confidence of the analysis, 1 when it is missing.
ConfidenceOf(analysis) ==
  IF analysis.confidence = Undefined THEN Dec(100) ELSE ValueOf(analysis.confidence)

\* 0.5, 0.3 and 0.2 of c in ten-thousandths, for c a whole number of hundredths.
Tenths(n, c) == (n * c) \div 10

PriceFormula(analysis) ==
  Tenths(5, Indicator(analysis.isAccurate) * Dec(100))
    + Tenths(3, Indicator(analysis.isClear) * Dec(100))
    + Tenths(2, ConfidenceOf(analysis))

StockFormula(analysis) ==
  Tenths(6, Indicator(analysis.isAccurate) * Dec(100))
    + Tenths(2, Indicator(analysis.providesAlternatives) * Dec(100))
    + Tenths(2, ConfidenceOf(analysis))

ServiceFields == { "politeness", "helpfulness", "relevance", "proactiveness", "clarity" }

AllSubScoresGiven(analysis) == \A f \in ServiceFields : analysis[f] # Undefined

\* 0.15 p + 0.3 h + 0.3 r + 0.1 a + 0.15 c in ten-thousandths.
WeightedAverage(analysis) ==
  ( 15 * ValueOf(analysis.politeness) + 30 * ValueOf(analysis.helpfulness)
      + 30 * ValueOf(analysis.relevance) + 10 * ValueOf(analysis.proactiveness)
      + 15 * ValueOf(analysis.clarity) ) \div 100

\* The score of the analysis with one sub-score replaced.
ScoreWith(analysis, f, v) ==
  CustomerServiceGenerateScore(
    [ analyzeStepResult |-> Some([ analysis EXCEPT ![f] = Some(v) ]) ])

C14_CatalogUnchanged ==
  /\ Len(sampleProducts) = 8
  /\ sampleProducts = SampleProductsLiteral

\* search-and-filter kept all 8 products and sorted them by ascending price,
\* so that its first product is not the catalog's first.
C14_Witness ==
  /\ IsSearchStep
  /\ input.preferredCategories = <<>>
  /\ input.keywords = <<>>
  /\ input.priceRange = [min |-> Undefined, max |-> Undefined]
  /\ input.priorityFactors = <<PRICE>>
  /\ output.totalMatched = 8
  /\ output.filteredProducts[1] # SampleProductsLiteral[1]
  /\ sampleProducts = SampleProductsLiteral

CatalogOperations ==
  { "search-products", "get-product-detail", "get-categories", "check-stock",
    "step:search-and-filter", "step:check-stock" }

InputsOf(name) ==
  CASE name = "search-products" -> SearchContexts
    [] name = "get-product-detail" -> [productId : ProductIds]
    [] name = "get-categories" -> { <<>> }
    [] name = "check-stock" -> StockContexts
    [] name = "step:search-and-filter" -> Preferences
    [] name = "step:check-stock" -> StockContexts

\* What an invocation of the operation returns in the current state.
ResultOf(name, in) ==
  CASE name = "search-products" -> SearchProductsExecute(in)
    [] name = "get-product-detail" -> GetProductDetailExecute(in)
    [] name = "get-categories" -> GetCategoriesExecute
    [] name = "check-stock" -> CheckStockExecute(in)
    [] name = "step:search-and-filter" -> SearchAndFilterExecute(in)
    [] name = "step:check-stock" -> CheckStockStepExecute(in)

\* C15: the catalog operations are stateless: two invocations of the same
\* operation with equal inputs return equal outputs whatever ran before or
\* between them.  No step of any operation changes what any operation
\* returns for any input; the operations read their input and sampleProducts
\* only, so the results are compared for the steps that change sampleProducts.
C15_Stateless ==
  [][ \/ sampleProducts' = sampleProducts
      \/ \A name \in CatalogOperations : \A in \in InputsOf(name) :
           ResultOf(name, in)' = ResultOf(name, in) ]_vars

\* search-products without a filter lists the 8 products in catalog order
\* while search-and-filter had them in another order.
C15_Witness ==
  /\ op = "search-products"
  /\ input = [ keyword |-> Undefined, category |-> Undefined,
               minPrice |-> Undefined, maxPrice |-> Undefined ]
  /\ output.products = SampleProductsLiteral
  /\ SearchAndFilterExecute(
       [ priceRange |-> [min |-> Undefined, max |-> Undefined],
         preferredCategories |-> <<>>, keywords |-> <<>>,
         priorityFactors |-> <<PRICE>> ]).filteredProducts[1] # output.products[1]

(***************************************************************************)
(* Properties of the search-and-filter step                                 *)
(***************************************************************************)

\* The product passes the category filter and the price filter of the
\* preferences.
PassesCategoryAndPrice(p, preferences) ==
  /\ Len(preferences.preferredCategories) > 0 =>
       \E cat \in Elements(preferences.preferredCategories) :
         ContainsIgnoringCase(p.category, cat)
  /\ preferences.priceRange.min # Undefined =>
       ValueOf(preferences.priceRange.min) <= p.price
  /\ preferences.priceRange.max # Undefined =>
       p.price <= ValueOf(preferences.priceRange.max)

CategoryAndPriceFiltered(preferences) ==
  { p \in Elements(SampleProductsLiteral) : PassesCategoryAndPrice(p, preferences) }

\* The name or the description of the product contains one of the keywords,
\* letter case ignored.
ContainsSomeKeyword(p, keywords) ==
  \E kw \in Elements(keywords) :
    ContainsIgnoringCase(p.name, kw) \/ ContainsIgnoringCase(p.description, kw)

SmallerOf(a, b) == IF a <= b THEN a ELSE b

\* C16: in search-and-filter with a non-empty keywords list, if some product
\* that passed the category and price filters contains a keyword in its name
\* or description, every returned product contains a keyword; if none does,
\* the keyword filter is skipped and the result is the category-and-price
\* filtered set, so the keyword filter alone never empties the result.
C16_KeywordFallback ==
  (IsSearchStep /\ Len(input.keywords) > 0) =>
    LET base == CategoryAndPriceFiltered(input)
        matching == { p \in base : ContainsSomeKeyword(p, input.keywords) }
    IN  /\ matching # {} =>
              /\ \A p \in Elements(output.filteredProducts) :
                   ContainsSomeKeyword(p, input.keywords)
              /\ Elements(output.filteredProducts) \subseteq matching
              /\ output.totalMatched = Cardinality(matching)
        /\ matching = {} =>
              /\ output.totalMatched = Cardinality(base)
              /\ Elements(output.filteredProducts) \subseteq base
              /\ Len(output.filteredProducts) = SmallerOf(TopCount, Cardinality(base))
        /\ base # {} => output.totalMatched > 0 /\ output.filteredProducts # <<>>

\* No PC周辺機器 product contains "zzz": the three of them are returned.
C16_Witness ==
  /\ IsSearchStep
  /\ input.keywords = << <<"z", "z", "z">> >>
  /\ input.preferredCategories = << <<"p", "c">> >>
  /\ input.priceRange = [min |-> Undefined, max |-> Undefined]
  /\ output.totalMatched = 3
  /\ Len(output.filteredProducts) = 3

Ascending(seq, Field) ==
  \A i, j \in 1..Len(seq) : i < j => seq[i][Field] <= seq[j][Field]

Descending(seq, Field) ==
  \A i, j \in 1..Len(seq) : i < j => seq[i][Field] >= seq[j][Field]

FirstOnly(priorityFactors) ==
  IF Len(priorityFactors) = 0 THEN <<>> ELSE <<priorityFactors[1]>>

\* C17: search-and-filter orders its result by the first element of
\* priorityFactors only: ascending price for "price", descending stock for
\* "stock", descending price for "quality", "popularity" or an empty list;
\* the later elements never change the output.
C17_SortedByFirstFactor ==
  IsSearchStep =>
    LET factors == input.priorityFactors
        first == IF Len(factors) = 0 THEN <<>> ELSE factors[1]
    IN  /\ first = PRICE => Ascending(output.filteredProducts, "price")
        /\ first = STOCK => Descending(output.filteredProducts, "stock")
        /\ (first \in {QUALITY, POPULARITY} \/ Len(factors) = 0) =>
             Descending(output.filteredProducts, "price")
        /\ output = SearchAndFilterExecute([input EXCEPT !.priorityFactors = FirstOnly(factors)])

\* ["stock", "price"] on the whole catalog: stocks 50, 42, 35, 30, 25, where
\* ascending price puts id 7 fourth.
C17_Witness ==
  /\ IsSearchStep
  /\ input.priorityFactors = <<STOCK, PRICE>>
  /\ output.totalMatched = 8
  /\ [i \in 1..5 |-> output.filteredProducts[i].id]
       = << <<"6">>, <<"3">>, <<"8">>, <<"5">>, <<"1">> >>

\* The products search-and-filter sorts: those that pass the category and
\* price filters, narrowed to those containing a keyword when there are any.
Matches(preferences) ==
  LET base == CategoryAndPriceFiltered(preferences)
      matching == { p \in base : ContainsSomeKeyword(p, preferences.keywords) }
  IN  IF Len(preferences.keywords) > 0 /\ matching # {} THEN matching ELSE base

\* The position of a product in the sort: lower comes first.
SortKey(p, priorityFactors) ==
  LET first == IF Len(priorityFactors) = 0 THEN <<>> ELSE priorityFactors[1]
  IN  CASE first = PRICE -> p.price
        [] first = STOCK -> 0 - p.stock
        [] OTHER -> 0 - p.price

\* C18: search-and-filter returns at most 5 products, the first 5 of the
\* sorted matches, and totalMatched is the number of matches before the
\* truncation; in every successful workflow result recommendations.length is
\* min(5, totalFound) and totalFound is at most the catalog size 8.
C18_TopFive ==
  /\ IsSearchStep =>
       LET returned == Elements(output.filteredProducts)
           matches == Matches(input)
       IN  /\ Len(output.filteredProducts) <= 5
           /\ output.totalMatched = Cardinality(matches)
           /\ Len(output.filteredProducts) = SmallerOf(5, output.totalMatched)
           /\ Cardinality(returned) = Len(output.filteredProducts)
           /\ returned \subseteq matches
           /\ \A i, j \in 1..Len(output.filteredProducts) :
                i < j => SortKey(output.filteredProducts[i], input.priorityFactors)
                           <= SortKey(output.filteredProducts[j], input.priorityFactors)
           /\ \A p \in returned : \A q \in matches \ returned :
                SortKey(p, input.priorityFactors) <= SortKey(q, input.priorityFactors)
  /\ wf.status = "success" =>
       /\ Len(wf.data.recommendations) = SmallerOf(5, wf.data.totalFound)
       /\ wf.data.totalFound <= 8

\* A run whose search matched all 8 products and recommended 5 of them.
C18_Witness ==
  /\ wf.status = "success"
  /\ wf.data.totalFound = 8
  /\ Len(wf.data.recommendations) = 5
  /\ \E i \in 1..Len(wf.log) :
       /\ wf.log[i] = Event("end", "search-and-filter", wf.log[i].data)
       /\ wf.log[i].data.totalMatched = 8
       /\ wf.log[i].data.filteredProducts = wf.data.recommendations

(***************************************************************************)
(* Properties of the product-recommendation workflow's data                 *)
(***************************************************************************)

\* The answers of the model whose JSON leaves a price bound null or out, with
\* the bounds analyze-user-request is to output for them.
C19_Answers ==
  { [text |-> ResponseBudgetPeripherals, min |-> Undefined, max |-> Some(10000)],
    [text |-> <<Prose>> \o ResponseBudgetPeripherals \o <<Prose>>,
     min |-> Undefined, max |-> Some(10000)],
    [text |-> ResponseNullRange, min |-> Undefined, max |-> Undefined],
    [text |-> ResponseMinOnly, min |-> Some(5900), max |-> Undefined],
    [text |-> ResponseTooExpensive, min |-> Some(30000), max |-> Undefined],
    [text |-> ResponseNullMax, min |-> Some(10000), max |-> Undefined],
    [text |-> <<LB, RB>>, min |-> Undefined, max |-> Undefined] }

\* The products that pass the filters of the preferences other than the
\* price bounds the list names.
PassingWithout(preferences, dropped) ==
  LET range == [ b \in {"min", "max"} |->
                   IF b \in dropped THEN Undefined ELSE preferences.priceRange[b] ]
  IN  Matches([preferences EXCEPT !.priceRange = range])

\* C19: when the parsed JSON gives priceRange.min or priceRange.max as null
\* or leaves it (or priceRange) out, analyze-user-request outputs that bound
\* as absent and search-and-filter applies no filter for it: a null maximum
\* does not exclude every product and a null minimum does not act as 0.
C19_NullBoundIsNoBound ==
  \A i \in 1..Len(wf.log) : \A a \in C19_Answers :
    wf.log[i] = Event("response", "analyze-user-request", a.text) =>
      /\ Len(wf.log) > i =>
           /\ wf.log[i + 1].ev = "end"
           /\ wf.log[i + 1].step = "analyze-user-request"
           /\ wf.log[i + 1].data.priceRange = [min |-> a.min, max |-> a.max]
      /\ Len(wf.log) > i + 2 =>
           LET preferences == wf.log[i + 1].data
               absent == { b \in {"min", "max"} : a[b] = Undefined }
           IN  /\ wf.log[i + 3].ev = "end"
               /\ wf.log[i + 3].step = "search-and-filter"
               /\ wf.log[i + 3].data.totalMatched
                    = Cardinality(PassingWithout(preferences, absent))
               /\ Elements(wf.log[i + 3].data.filteredProducts)
                    \subseteq PassingWithout(preferences, absent)

\* { "min": 10000, "max": null }: the three products from 10000 yen are
\* found.
C19_Witness ==
  /\ wf.status = "success"
  /\ wf.log[3] = Event("response", "analyze-user-request", ResponseNullMax)
  /\ wf.log[4].data.priceRange = [min |-> Some(10000), max |-> Undefined]
  /\ wf.data.totalFound = 3
  /\ \A p \in Elements(wf.data.recommendations) : p.price >= 10000

\* The model was asked at position i of the run, by the step.
Asked(i, step) == wf.log[i].ev = "generate" /\ wf.log[i].step = step

\* C20: when search-and-filter yields no product, generate-recommendation
\* returns recommendations = [], totalFound = 0 and the fixed apology without
\* invoking the model; it invokes the model only when at least one product
\* was found.
C20_NoModelCallWhenEmpty ==
  \A i \in 1..Len(wf.log) :
    (wf.log[i].ev = "start" /\ wf.log[i].step = "generate-recommendation") =>
      /\ wf.log[i].data.filteredProducts = <<>> =>
           /\ \A j \in i..Len(wf.log) : ~Asked(j, "generate-recommendation")
           /\ Len(wf.log) = i + 1
           /\ wf.log[i + 1].ev = "end"
           /\ wf.log[i + 1].data =
                [recommendations |-> <<>>, reasoning |-> "apology", totalFound |-> 0]
           /\ wf.status = "success"
           /\ wf.data = wf.log[i + 1].data
      /\ (\E j \in i..Len(wf.log) : Asked(j, "generate-recommendation")) =>
           /\ Len(wf.log[i].data.filteredProducts) >= 1
           /\ wf.log[i].data.totalMatched >= 1

\* Nothing costs 30000 yen or more: the run ends with the apology after one
\* call of the model, that of analyze-user-request.
C20_Witness ==
  /\ wf.status = "success"
  /\ wf.log[3] = Event("response", "analyze-user-request", ResponseTooExpensive)
  /\ wf.data = [recommendations |-> <<>>, reasoning |-> "apology", totalFound |-> 0]
  /\ Cardinality({ j \in 1..Len(wf.log) : wf.log[j].ev = "generate" }) = 1

(***************************************************************************)
(* Properties of the check-stock step and of get-categories                 *)
(***************************************************************************)

\* The position of the product in the catalog.
CatalogIndex(p) == CHOOSE i \in 1..Len(SampleProductsLiteral) : SampleProductsLiteral[i] = p

\* C21: in the check-stock step, alternatives is empty whenever isAvailable
\* is true; when isAvailable is false, alternatives holds at most 3 products,
\* in catalog order, each different from the requested product, of exactly
\* its category, and with stock >= the requested quantity.
C21_Alternatives ==
  op = "step:check-stock" =>
    /\ output.isAvailable => output.alternatives = <<>>
    /\ ~output.isAvailable =>
         /\ Len(output.alternatives) <= 3
         /\ \A i \in 1..Len(output.alternatives) :
              /\ output.alternatives[i] \in Elements(SampleProductsLiteral)
              /\ output.alternatives[i].id # input.productId
              /\ InCatalog(input.productId)
              /\ output.alternatives[i].category = CatalogProduct(input.productId).category
              /\ output.alternatives[i].stock >= RequestedQuantity(input.quantity)
         /\ \A i, j \in 1..Len(output.alternatives) :
              i < j => CatalogIndex(output.alternatives[i]) < CatalogIndex(output.alternatives[j])

\* 20 pieces of product 4 (stock 15): the other two PC周辺機器 products, 5
\* and 7, have enough stock and are proposed in catalog order.
C21_Witness ==
  /\ op = "step:check-stock"
  /\ input = [productId |-> <<"4">>, quantity |-> Some(20)]
  /\ ~output.isAvailable
  /\ [i \in 1..Len(output.alternatives) |-> output.alternatives[i].id] = << <<"5">>, <<"7">> >>

CatalogCategories == { p.category : p \in Elements(SampleProductsLiteral) }

\* The position of the first product of the category in the catalog.
FirstAppearance(category) ==
  CHOOSE i \in 1..Len(SampleProductsLiteral) :
    /\ SampleProductsLiteral[i].category = category
    /\ \A j \in 1..(i - 1) : SampleProductsLiteral[j].category # category

RECURSIVE SumOfCounts(_)
SumOfCounts(categories) ==
  IF categories = <<>> THEN 0
  ELSE categories[1].productCount + SumOfCounts(Tail(categories))

\* C22: get-categories returns exactly one entry per distinct category of
\* the catalog, in order of first appearance, with productCount the number
\* of catalog products of that category; the productCounts sum to the
\* catalog size and each is at least 1.
C22_Categories ==
  op = "get-categories" =>
    LET categories == output.categories
    IN  /\ { categories[i].name : i \in 1..Len(categories) } = CatalogCategories
        /\ Len(categories) = Cardinality(CatalogCategories)
        /\ \A i, j \in 1..Len(categories) :
             i < j => FirstAppearance(categories[i].name) < FirstAppearance(categories[j].name)
        /\ \A i \in 1..Len(categories) :
             /\ categories[i].productCount =
                  Cardinality({ k \in 1..Len(SampleProductsLiteral) :
                                  SampleProductsLiteral[k].category = categories[i].name })
             /\ categories[i].productCount >= 1
        /\ SumOfCounts(categories) = Len(SampleProductsLiteral)
        /\ SumOfCounts(categories) = 8

\* オーディオ 2, ウェアラブル 1, アクセサリー 2, PC周辺機器 3
C22_Witness ==
  /\ op = "get-categories"
  /\ output.categories =
       << [name |-> SampleProductsLiteral[1].category, productCount |-> 2],
          [name |-> SampleProductsLiteral[2].category, productCount |-> 1],
          [name |-> SampleProductsLiteral[3].category, productCount |-> 2],
          [name |-> SampleProductsLiteral[4].category, productCount |-> 3] >>

(***************************************************************************)
(* Properties of the chat widget                                           *)
(***************************************************************************)

\* The submit event handled last sent a message.
SubmitAccepted ==
  /\ widget.last.event = "submit"
  /\ Len(widget.messages) > Len(widget.last.messages)

\* The submit event handled last sent nothing.
SubmitRejected ==
  /\ widget.last.event = "submit"
  /\ Len(widget.messages) = Len(widget.last.messages)

\* C23: the chat widget sends a message only when the input is non-blank and
\* the status is neither "submitted" nor "streaming"; so at most one chat
\* request is in flight at any time, a rejected submit leaves the input text
\* and the message list as they were, and an accepted submit sends the input
\* text and clears the input.
C23_OneRequestInFlight ==
  /\ widget.requests <= 1
  /\ SubmitAccepted =>
       /\ Trim(widget.last.inputValue) # <<>>
       /\ widget.last.status \notin {"submitted", "streaming"}
       /\ widget.messages =
            Append(widget.last.messages, [role |-> "user", text |-> widget.last.inputValue])
       /\ widget.inputValue = <<>>
  /\ SubmitRejected =>
       /\ widget.inputValue = widget.last.inputValue
       /\ widget.messages = widget.last.messages

\* A submit of the text " a " while the response to an earlier message was
\* streaming was rejected: one request in flight, the text still in the input.
C23_Witness ==
  /\ SubmitRejected
  /\ widget.last.status = "streaming"
  /\ widget.inputValue = <<" ", "a", " ">>
  /\ widget.requests = 1
  /\ Len(widget.messages) = 2

(***************************************************************************)
(* Properties of the generation started by the chat endpoint               *)
(***************************************************************************)

\* C24: the loop of model calls and tool calls of one chat request does at
\* most 5 steps: while it runs fewer than 5 steps were done, so a model that
\* asks for a tool call in every step is stopped after the fifth.
C24_AtMostFiveSteps ==
  /\ stream.steps <= 5
  /\ stream.active => stream.steps < 5
  /\ stream.active => op = "POST /api/chat"

\* The model asked for tool calls in each of five steps and the loop stopped.
C24_Witness ==
  /\ op = "POST /api/chat"
  /\ stream.steps = 5
  /\ stream.finishReason = "tool-calls"
  /\ ~stream.active

\* The generation of the request in progress was started.
GenerationStarted == stream.active \/ stream.steps > 0

\* C25: when getAgent("shoppingAssistantAgent") gives the chat endpoint no
\* agent, the response has status 404 and body "Agent not found" and no text
\* generation is started; a text generation is started only in a request in
\* which the agent and its instructions were obtained.
C25_AgentNotFound ==
  op = "POST /api/chat" =>
    /\ (input.req.kind = "messages" /\ input.fails = "getAgent-undefined") =>
         /\ output.status = 404
         /\ output.body = "Agent not found"
         /\ output.generation = Undefined
         /\ ~GenerationStarted
    /\ (output.generation # Undefined \/ GenerationStarted) =>
         input.fails \notin {"getAgent-throws", "getAgent-undefined", "getInstructions-rejects"}

\* A request with one message found no agent and was answered with 404.
C25_Witness ==
  /\ op = "POST /api/chat"
  /\ input.fails = "getAgent-undefined"
  /\ Len(input.req.messages) = 1
  /\ output.status = 404
  /\ stream = NoStream

(***************************************************************************)
(* Properties of the workflow, end to end                                  *)
(***************************************************************************)

\* The run succeeded and its analyze-user-request step got a response that
\* holds no JSON, so that the step returned its defaults.
SucceededOnDefaults ==
  /\ wf.status = "success"
  /\ \E i \in 1..Len(wf.log) :
       /\ wf.log[i].ev = "response"
       /\ wf.log[i].step = AnalyzeStep
       /\ C7_Unparsable(wf.log[i].data)

\* The user message is a substring, letter for letter, of a product's name
\* or description.
MessageIsSubstring ==
  \E p \in Elements(SampleProductsLiteral) :
    Includes(p.name, wf.input.userMessage) \/ Includes(p.description, wf.input.userMessage)

\* The same with the letter case ignored.
MessageIsSubstringIgnoringCase ==
  \E p \in Elements(SampleProductsLiteral) :
    \/ ContainsIgnoringCase(p.name, wf.input.userMessage)
    \/ ContainsIgnoringCase(p.description, wf.input.userMessage)

\* The run's result is no empty result: it recommends the five products of
\* the catalog with the highest prices, the most expensive first, and reports
\* 8 products found.
FiveMostExpensiveOfEight ==
  LET recommendations == wf.data.recommendations
      recommended == Elements(recommendations)
  IN  /\ wf.data # EmptyRecommendation
      /\ Len(recommendations) = 5
      /\ recommended \subseteq Elements(SampleProductsLiteral)
      /\ \A i, j \in 1..5 : i < j => recommendations[i].price > recommendations[j].price
      /\ \A p \in recommended : \A q \in Elements(SampleProductsLiteral) \ recommended :
           p.price >= q.price
      /\ wf.data.totalFound = 8

====
